---- MODULE Spec2Model ----
(***************************************************************************)
(* State-machine model of the effect-resolution engine of                  *)
(* src/src/effects/effects.py: the context-local handler stack             *)
(* (_STACK_VAR, get_stack), the resolution pointer (_PTR_VAR), the guards  *)
(* (_EffectHandler.__enter__/__exit__), send / safe_send / barrier and     *)
(* bind.                                                                   *)
(*                                                                         *)
(* Python objects that are compared or mutated by identity are modelled    *)
(* by identity: handler objects are numbers, effect instances carry an id, *)
(* and list objects live in a heap so that two references to one list see  *)
(* each other's mutations.  List ids are renamed after every step to the   *)
(* number of the first reference slot that holds them, so that states that *)
(* differ only in the names of list objects coincide.                      *)
(*                                                                         *)
(* Indices and pointer values are Python's (0-based, -1 = exhausted);      *)
(* ListGet translates them to sequence positions.                          *)
(***************************************************************************)
EXTENDS Integers, Sequences, FiniteSets, TLC

VARIABLES
    stackVar,   \* _STACK_VAR per context: a list id, 0 for None
    ptrVar,     \* _PTR_VAR per context: <<>> for None, <<p>> for the int p
    heap,       \* list id -> contents (handler objects, bottom to top)
    frames,     \* the Python call stack of the thread, bottom to top
    ret,        \* the value or exception passed from a finished callee to its caller
    made,       \* per context other than main: "no", or how it was produced (by bind:
                \* "passed" from the passed guards, "current" with
                \* bind_current_context=True; for a thread or task: "empty", "copied")
    entered,    \* per bound context: a ctx.run of it is executing
    pool,       \* the handler objects the program under analysis uses
    trace,      \* history: the handler callables invoked for the operations in flight
    open,       \* history: per context, the guards its scripts entered and have not
                \* exited, in the order they were entered
    captured,   \* history: per bound context, the stack contents bind captured
    gen,        \* the generator object a bound generator function has returned
    parked      \* the thread that is not running now: its call stack, its ret and
                \* its trace (an empty call stack: there is no other thread)

vars == <<stackVar, ptrVar, heap, frames, ret, made, entered, pool,
          trace, open, captured, gen, parked>>

-----------------------------------------------------------------------------
(* Bounds *)

MaxStack == 3      \* installs are not attempted on a stack of this length
MaxBindStack == 2  \* the same, in the programs that use bind
MaxThreadStack == 1  \* the same, in the programs that start a thread
MaxTypedStack == 2   \* the same, in the programs that declare unions and specializations
MaxUtilStack == 3    \* the same, in the programs that use util.stack
MaxSnapStack == 3    \* the same, in the programs that keep what get_stack returned
MaxScanStack == 3    \* the same, in the programs whose callables send twice
MaxNestStack == 2    \* the same, in the programs whose callables bind and invoke
MaxAcquireStack == 2 \* the same, in the programs whose on_enter callbacks raise
MaxReenterStack == 1 \* the same, in the programs that invoke from two threads
MaxScopedStack == 3  \* the same, for the scripts of the programs whose callables open scopes
MaxDepth == 6      \* Python frames modelled at once

-----------------------------------------------------------------------------
(* Effect classes and handler objects of the program under analysis *)

Classes == {"Effect", "A", "A1", "B", "Box"}

\* class A(Effect), class A1(A), class B(Effect), class Box[T](Effect[T]): the classes
\* an instance of c is an instance of
Mro(c) ==
    CASE c = "A1" -> {"A1", "A", "Effect"}
      [] c = "A" -> {"A", "Effect"}
      [] c = "B" -> {"B", "Effect"}
      [] c = "Box" -> {"Box", "Effect"}
      [] c = "NotAnEffect" -> {"NotAnEffect"}
      [] OTHER -> {"Effect"}

\* the types of the payloads the program constructs a Box with: Box(5), Box("x"),
\* Box(5.0)
BoxArgs == {"int", "str", "float"}

\* the base named in the class statement of c
Parent(c) ==
    CASE c = "A1" -> "A"
      [] OTHER -> "Effect"

Handlers == {1, 2, 3, 4, 5, 6, 7, 8, 9, 10, 11, 12, 13, 14, 15, 16, 17, 18, 19,
             20, 21, 22, 23, 24, 25, 26, 27, 28, 29, 30, 31, 32}
\* the handler objects of the program that uses one context
CoreHandlers == {1, 2, 3, 4, 5, 6, 7}
\* the handler objects of the program that binds a computation
BindHandlers == {1, 8}
\* the handler objects of the program that starts a thread
ThreadHandlers == {1, 9}

\* the handler objects of the program whose callables bind and invoke
NestHandlers == {1, 30}
\* the handler objects of the program whose callables open scopes
ScopedHandlers == {1, 2, 32}
\* the handler objects of the program that invokes from two threads
ReenterHandlers == {30}
\* the handler objects of the program whose on_enter callbacks raise
AcquireHandlers == {1, 29, 31}
\* the handler objects of the program whose callables send twice
ScanHandlers == {25, 26, 27, 28}
\* the handler objects of the program that keeps what get_stack returned
SnapHandlers == {23, 24}
\* the handler objects of the program that combines guards with util.stack
UtilHandlers == {20, 21, 22}
\* the handler objects of the program that declares unions and specializations
TypedHandlers == {10, 11, 12, 13, 14, 15, 16, 17, 18, 19}

\* the class of the _effect_type of the handler objects constructed with a class
HType(h) ==
    CASE h = 1 -> "A"
      [] h = 2 -> "A1"
      [] h = 3 -> "A"
      [] h = 4 -> "B"
      [] h = 5 -> "A"
      [] h = 6 -> "Effect"
      [] h = 7 -> "B"
      [] h = 8 -> "A1"
      [] h = 22 -> "B"
      [] h = 24 -> "B"
      [] h = 28 -> "B"
      [] OTHER -> "A"

\* _EffectHandler._handler_func, by what the callable does with the effect e:
\*   "ret"     return a value of its own
\*   "fwd"     return send(e, interpret_final=False)
\*   "barrier" raise NoHandlerError(e)                    (barrier's _raise)
\*   "sendB"   return send(B())                           (a fresh send of another effect)
\*   "fwdNew"  return send(type(e)(), interpret_final=False)
\*   "raise"   raise ValueError()
\*   "two"     try: send(e, interpret_final=False)
\*             except Exception: pass
\*             return send(e, interpret_final=False)
\*   "topTwo"  try: send(B())
\*             except Exception: pass
\*             return send(e, interpret_final=False)
\*   "bindInvoke"  global bound
\*             if bound is None: bound = bind(computation, *hs, bind_current_context=bcc)
\*             return bound()
\*   "bindOnly"  bind(computation, *hs, bind_current_context=bcc)
\*             return None
\*   "scoped"  with g: return send(e, interpret_final=False)
HKind(h) ==
    CASE h = 1 -> "ret"
      [] h = 2 -> "fwd"
      [] h = 3 -> "barrier"
      [] h = 4 -> "ret"
      [] h = 5 -> "sendB"
      [] h = 6 -> "fwdNew"
      [] h = 7 -> "raise"
      [] h = 26 -> "two"
      [] h = 27 -> "topTwo"
      [] h = 30 -> "bindInvoke"
      [] h = 31 -> "bindOnly"
      [] h = 32 -> "scoped"
      [] OTHER -> "ret"

\* _EffectHandler._on_enter: "none" (not given), or what the callback does: "ok"
\* (returns), "raise" (raises)
HOnEnter(h) ==
    CASE h \in {1, 8, 20, 21} -> "ok"
      [] h = 29 -> "raise"
      [] OTHER -> "none"

\* _EffectHandler._on_exit: "none" (not given), or what the callback does: "ok"
\* (returns), "raise" (raises)
HOnExit(h) ==
    CASE h \in {1, 4, 8, 20, 29} -> "ok"
      [] h = 21 -> "raise"
      [] OTHER -> "none"

\* type objects: a class, a subscripted generic class (Box[int]) and a union of
\* classes (A | B)
ClassT(c) == [form |-> "class", cls |-> c, arg |-> "", members |-> {}]
AliasT(c, a) == [form |-> "alias", cls |-> c, arg |-> a, members |-> {}]
UnionT(S) == [form |-> "union", cls |-> "", arg |-> "", members |-> S]

\* how the program calls handler() for each handler object: the annotation of the
\* callable's first parameter (explicit FALSE), or the effect_type argument it
\* passes (explicit TRUE)
\*   10  @handler  def f(e: A | B)         11  handler(f, A | B)
\*   12  @handler  def f(e: A)
\*   13  @handler  def f(e: Box[int])      14  @handler  def f(e: Box[str])
\*   15  handler(f, Box[int])
\*   16  handler(f, NotAnEffect)           17  @handler  def f(e: NotAnEffect)
\*   18  @handler  def f(e: A | NotAnEffect)
\*   19  handler(f, A | NotAnEffect)
\* where class NotAnEffect is not derived from Effect
Decl(h) ==
    CASE h = 10 -> [ann |-> UnionT({"A", "B"}), explicit |-> FALSE]
      [] h = 11 -> [ann |-> UnionT({"A", "B"}), explicit |-> TRUE]
      [] h = 12 -> [ann |-> ClassT("A"), explicit |-> FALSE]
      [] h = 13 -> [ann |-> AliasT("Box", "int"), explicit |-> FALSE]
      [] h = 14 -> [ann |-> AliasT("Box", "str"), explicit |-> FALSE]
      [] h = 15 -> [ann |-> AliasT("Box", "int"), explicit |-> TRUE]
      [] h = 16 -> [ann |-> ClassT("NotAnEffect"), explicit |-> TRUE]
      [] h = 17 -> [ann |-> ClassT("NotAnEffect"), explicit |-> FALSE]
      [] h = 18 -> [ann |-> UnionT({"A", "NotAnEffect"}), explicit |-> FALSE]
      [] h = 19 -> [ann |-> UnionT({"A", "NotAnEffect"}), explicit |-> TRUE]
      [] OTHER -> [ann |-> ClassT(HType(h)), explicit |-> TRUE]

\* hasattr(param_annotation, "__origin__"), line 196: true of a subscripted generic,
\* false of a class and of the types.UnionType that A | B evaluates to
HasOrigin(t) == t.form = "alias"

\* handler(), lines 176-212, for the declaration d: an explicit effect_type is
\* stored as it is; an annotation is reduced to its origin when it has one (lines
\* 196-201) and must then be a class derived from Effect (lines 204-208, ok FALSE:
\* TypeError)
HandlerResult(d) ==
    IF d.explicit THEN [ok |-> TRUE, type |-> d.ann]
    ELSE LET t == IF HasOrigin(d.ann) THEN ClassT(d.ann.cls) ELSE d.ann
         IN  [ok |-> t.form = "class" /\ "Effect" \in Mro(t.cls), type |-> t]

\* _EffectHandler._effect_type, line 52
EffectType(h) == HandlerResult(Decl(h)).type

\* isinstance(e, t) raises TypeError: t is a subscripted generic
IsInstanceRaises(t) == t.form = "alias"

\* isinstance(e, t) where it returns
IsInstance(e, t) ==
    CASE t.form = "class" -> t.cls \in Mro(e.cls)
      [] t.form = "union" -> \E m \in t.members : m \in Mro(e.cls)
      [] OTHER -> FALSE

Contexts == {"main", "b1", "t1", "t2"}
CtxOrder == <<"main", "b1", "t1", "t2">>
\* the contexts that bind produces
BoundCtx == {"b1"}
\* the contexts of the threads and tasks the program starts
ThreadCtx == {"t1", "t2"}

-----------------------------------------------------------------------------
(* Values *)

None == <<>>
Some(p) == <<p>>

NoEff == [id |-> 0, cls |-> "Effect", arg |-> ""]

NoRet == [k |-> "none", x |-> 0, t |-> ""]
Val(v) == [k |-> "val", x |-> v, t |-> ""]
Exc(t, x) == [k |-> "exc", x |-> x, t |-> t]
PyNone == Val(0)
\* the default_value the scripts pass to safe_send
DefaultValue == Val(0 - 1)
\* faulty variant: the error carries another object than the effect that was sent
NoHandlerErrorCopy(e) == Exc("NoHandlerError", 0)

\* NoHandlerError(effect), lines 34-37
NoHandlerError(e) == Exc("NoHandlerError", e.id)

\* history kept in a script's frame: the library call it is making or has just made,
\* with the stack contents and the pointer of its context when the call began
\* (raw: what the send inside a safe_send returned or raised)
NoOp == [name |-> "none", eff |-> NoEff, final |-> TRUE, stack0 |-> <<>>,
         ptr0 |-> None, h |-> 0, raw |-> NoRet, hs |-> <<>>, bcc |-> FALSE,
     warn |-> "", cb |-> FALSE, tried |-> <<>>, cbs |-> <<>>,
     ann |-> [cls |-> "", args |-> <<>>]]

Frame(kind, ctx) ==
    [kind |-> kind, ctx |-> ctx, eff |-> NoEff, final |-> TRUE, stack |-> 0,
     ptr |-> 0, tok |-> None, pc |-> "", h |-> 0, idx |-> 0 - 1,
     op |-> NoOp]

ListGet(s, i) == s[i + 1]

\* list.pop(i)
ListPop(s, i) == [j \in 1..(Len(s) - 1) |-> IF j <= i THEN s[j] ELSE s[j + 1]]

-----------------------------------------------------------------------------
(* The heap of list objects *)

NSlots == Len(CtxOrder) + 2 * MaxDepth
HeapIds == 1..(NSlots + 2)
EmptyHeap == [l \in HeapIds |-> <<>>]

\* every place that holds a reference to a list: the context variables, then the
\* local `stack` of each send frame of the running thread and of the other thread
RootsOf(sv, fr, pfr) ==
    [i \in 1..NSlots |->
        IF i <= Len(CtxOrder) THEN sv[CtxOrder[i]]
        ELSE IF i - Len(CtxOrder) <= Len(fr) THEN fr[i - Len(CtxOrder)].stack
        ELSE IF i - Len(CtxOrder) - MaxDepth \in 1..Len(pfr)
             THEN pfr[i - Len(CtxOrder) - MaxDepth].stack
        ELSE 0]

Roots(sv, fr) == RootsOf(sv, fr, parked.frames)

Referenced(sv, fr) ==
    {sv[c] : c \in Contexts} \cup {fr[k].stack : k \in 1..Len(fr)}
        \cup {parked.frames[k].stack : k \in 1..Len(parked.frames)}

\* a list id no reference holds (keep: ids held by locals of the running operation)
Fresh(sv, fr, keep) ==
    LET used == Referenced(sv, fr) \cup keep
    IN  CHOOSE l \in HeapIds : l \notin used /\ \A m \in 1..(l - 1) : m \in used

\* the name a list gets: the number of the first slot that refers to it
Canon(r, l) ==
    LET at == {i \in DOMAIN r : r[i] = l}
    IN  IF l = 0 \/ at = {} THEN 0 ELSE CHOOSE i \in at : \A j \in at : i <= j

\* the contents of the list a context variable refers to (None reads as empty)
Contents(sv, hp, c) == IF sv[c] = 0 THEN <<>> ELSE hp[sv[c]]

\* what get_stack() would return in the context c now
StackOf(c) == Contents(stackVar, heap, c)

-----------------------------------------------------------------------------
(* get_stack and the guards.  A world w is the pair [sv, hp] of the context *)
(* variables and the heap an operation works on; new is an unused list id.  *)

\* faulty variant: get_stack returns the list the variable holds, and creates one only for None
GetStackShared(curList, new) == IF curList = 0 THEN new ELSE curList

\* get_stack, lines 123-130: the list object it stores and returns is always new
GetStackId(curList, new) == new

\* get_stack: the new list holds a copy of the current one (empty for None)
GetStack(w, c, new) ==
    LET l == GetStackId(w.sv[c], new)
    IN  [sv |-> [w.sv EXCEPT ![c] = l],
         hp |-> [w.hp EXCEPT ![l] = Contents(w.sv, w.hp, c)]]

\* __enter__ returns self._handler_func, line 64
EnterResult(h) == Val(h)

\* how __enter__ ends: the on_enter callback it calls at line 63 may raise
EnterOutcome(h) ==
    IF HOnEnter(h) = "raise" THEN Exc("CallbackError", h) ELSE EnterResult(h)

\* faulty variant: on_enter is called before the guard is appended
OnEnterFirst(h, seen) ==
    IF HOnEnter(h) # "none"
    THEN <<[cb |-> "on_enter", h |-> h, seen |-> SubSeq(seen, 1, Len(seen) - 1),
            info |-> NoRet]>>
    ELSE <<>>

\* lines 62-63: the call of the on_enter callback that __enter__ makes after the
\* append (seen: the stack of the context during the call; info: the arguments, none)
OnEnterCalls(h, seen) ==
    IF HOnEnter(h) # "none"
    THEN <<[cb |-> "on_enter", h |-> h, seen |-> seen, info |-> NoRet]>>
    ELSE <<>>

\* faulty variant: the guard is inserted at the bottom of the stack
EnterAtBottom(w, c, h, new) ==
    LET w1 == GetStack(w, c, new)
    IN  [w1 EXCEPT !.hp[w1.sv[c]] = <<h>> \o @]

\* faulty variant: a guard whose on_enter raises is not left on the stack
EnterRolledBack(w, c, h, new) ==
    LET w1 == GetStack(w, c, new)
    IN  IF HOnEnter(h) = "raise" THEN w1
        ELSE [w1 EXCEPT !.hp[w1.sv[c]] = Append(@, h)]

\* _EffectHandler.__enter__: stack = get_stack(); stack.append(self)
Enter(w, c, h, new) ==
    LET w1 == GetStack(w, c, new)
    IN  [w1 EXCEPT !.hp[w1.sv[c]] = Append(@, h)]

Present(s, h) == \E i \in 1..Len(s) : s[i] = h

\* faulty variant: the loop runs from the bottom, and finds the lowest index
LowestIndexOf(s, h) ==
    CHOOSE i \in 0..(Len(s) - 1) :
        /\ ListGet(s, i) = h
        /\ \A j \in 0..(i - 1) : ListGet(s, j) # h

\* the loop of __exit__, lines 81-82: the highest index holding this very object
TopmostIndexOf(s, h) ==
    CHOOSE i \in 0..(Len(s) - 1) :
        /\ ListGet(s, i) = h
        /\ \A j \in (i + 1)..(Len(s) - 1) : ListGet(s, j) # h

\* lines 87-92: the RuntimeWarning __exit__ emits ("" for none)
ExitWarning(s, h) ==
    IF s = <<>> THEN "Stack empty on exit"
    ELSE IF ~Present(s, h) THEN "not found on stack during exit"
    ELSE ""

\* faulty variant: __exit__ does not call on_exit
ExitCallsNothing(s, h) == FALSE

\* lines 84-85: __exit__ calls the on_exit callback of the guard (when it has one)
ExitCallsOnExit(s, h) == Present(s, h) /\ HOnExit(h) # "none"

\* lines 84-85: the call of the on_exit callback that __exit__ makes after the pop of
\* line 83, for the stack s0 it found (seen: the stack during the call; info: the
\* exception __exit__ was given, NoRet for (None, None, None))
OnExitCalls(h, s0, seen, info) ==
    IF ExitCallsOnExit(s0, h)
    THEN <<[cb |-> "on_exit", h |-> h, seen |-> seen, info |-> info]>>
    ELSE <<>>

\* faulty variant: the exit of a guard that is not on the stack raises, as
\* list.remove does
ExitRaisesWhenAbsent(s, h) == IF Present(s, h) THEN PyNone ELSE Exc("ValueError", 0)

\* faulty variant: __exit__ returns a true value
ExitSuppresses(s, h) == Val(1)

\* how __exit__ ends for the stack s: it returns None on each of its paths (lines
\* 86, 87, 89), unless the on_exit callback it calls at line 85 raises
ExitOutcome(s, h) ==
    IF ExitCallsOnExit(s, h) /\ HOnExit(h) = "raise" THEN Exc("CallbackError", h)
    ELSE PyNone

\* faulty variant: the guard is not removed
ExitKeeps(w, c, h, new) == GetStack(w, c, new)

\* _EffectHandler.__exit__: stack = get_stack(); pop the topmost occurrence of self,
\* or only warn when the stack is empty or does not hold it
Exit(w, c, h, new) ==
    LET w1 == GetStack(w, c, new)
        s == w1.hp[w1.sv[c]]
    IN  IF Present(s, h)
        THEN [w1 EXCEPT !.hp[w1.sv[c]] = ListPop(s, TopmostIndexOf(s, h))]
        ELSE w1

-----------------------------------------------------------------------------
(* send *)

\* faulty variant: every send starts at the top
StartPtrTop(final, ptrv, n) == n - 1

\* faulty variant: a search from the top starts at len(stack)
StartPtrPastTop(final, ptrv, n) == IF final \/ ptrv = None THEN n ELSE ptrv[1]

\* faulty variant: a pointer that is present is used whatever interpret_final is
StartPtrIgnoresFinal(final, ptrv, n) == IF ptrv = None THEN n - 1 ELSE ptrv[1]

\* faulty variant: an exhausted pointer is treated as an absent one
StartPtrWraps(final, ptrv, n) ==
    IF final \/ ptrv = None THEN n - 1
    ELSE IF ptrv[1] < 0 THEN n - 1
    ELSE ptrv[1]

\* lines 234-236: where the search starts
StartPtr(final, ptrv, n) == IF final \/ ptrv = None THEN n - 1 ELSE ptrv[1]

\* faulty variant: every entry matches
MatchesAnything(e, h) == TRUE

\* faulty variant: an entry matches only instances of exactly its class
MatchesExactClass(e, h) == HType(h) = e.cls

\* line 243: isinstance(effect, handler_obj._effect_type)
Matches(e, h) == IsInstance(e, EffectType(h))

\* faulty variant: the pointer is not decremented before the candidate is tested
NextPtrKept(ptr) == ptr

\* the pointer value stored before a candidate at index ptr is tested, lines 241-242
NextPtr(ptr) == ptr - 1

\* faulty variant: the pointer is not reset
ResetPtrSkipped(tok, curPtr) == curPtr

\* finally: _PTR_VAR.reset(ptr_token), line 247: the value the variable had when the
\* token was made
ResetPtr(tok, curPtr) == tok

Top == frames[Len(frames)]
Cur == Top.ctx
W == [sv |-> stackVar, hp |-> heap]
Running(kind) == ret = NoRet /\ Top.kind = kind
Returned(kind) == ret # NoRet /\ Top.kind = kind

\* the next state of the context variables, the heap and the two call stacks (fr: the
\* running thread's, pk: the other thread), with the list objects renamed
CommitAll(sv, hp, fr, pk) ==
    LET r == RootsOf(sv, fr, pk.frames)
        cm == [l \in HeapIds \cup {0} |-> Canon(r, l)]
    IN  /\ stackVar' = [c \in Contexts |-> cm[sv[c]]]
        /\ frames' = [k \in 1..Len(fr) |-> [fr[k] EXCEPT !.stack = cm[@]]]
        /\ parked' = [pk EXCEPT !.frames = [k \in 1..Len(pk.frames) |->
                                              [pk.frames[k] EXCEPT !.stack = cm[@]]]]
        /\ heap' = [j \in HeapIds |->
                      IF j <= NSlots /\ r[j] # 0 /\ cm[r[j]] = j THEN hp[r[j]]
                      ELSE <<>>]

Commit(sv, hp, fr) == CommitAll(sv, hp, fr, parked)

\* the operations in flight below frame n keep their invocation records
TrimTrace(n) == SelectSeq(trace, LAMBDA t : t.d < n)

\* lines 233-237 of a call send(e, interpret_final=final) made by the top frame of fr
CallSend(fr, e, final) ==
    LET c == fr[Len(fr)].ctx
        w == GetStack(W, c, Fresh(stackVar, fr, {}))
        l == w.sv[c]
        f == [Frame("send", c) EXCEPT
                 !.eff = e, !.final = final, !.stack = l,
                 !.ptr = StartPtr(final, ptrVar[c], Len(w.hp[l])),
                 !.tok = ptrVar[c], !.pc = "scan"]
    IN  /\ Commit(w.sv, w.hp, Append(fr, f))
        /\ ptrVar' = [ptrVar EXCEPT ![c] = Some(f.ptr)]

\* send ends (return or raise) with outcome r: the finally clause, then back to the caller
EndSend(r) ==
    /\ Commit(stackVar, heap, SubSeq(frames, 1, Len(frames) - 1))
    /\ ptrVar' = [ptrVar EXCEPT ![Cur] = ResetPtr(Top.tok, @)]
    /\ ret' = r
    /\ trace' = [k \in 1..Len(trace) |->
                    IF trace[k].d = Len(frames) THEN [trace[k] EXCEPT !.res = r]
                    ELSE trace[k]]

\* the id of an effect instance constructed now: the instances the frames refer to
\* keep theirs
NewEffId ==
    LET used == {frames[k].eff.id : k \in 1..Len(frames)}
                \cup {frames[k].op.eff.id : k \in 1..Len(frames)}
    IN  1 + (CHOOSE i \in used : \A j \in used : j <= i)

-----------------------------------------------------------------------------
(* Scripts: the code that uses the library.  A script is any sequence of     *)
(* library calls; what a call returns or raises reaches the script in ret.*)

\* the top script records the call it makes
WithOp(o) == [frames EXCEPT ![Len(frames)] = [@ EXCEPT !.op = o]]

CallOp(name, e, final) ==
    [name |-> name, eff |-> e, final |-> final,
     stack0 |-> Contents(stackVar, heap, Cur), ptr0 |-> ptrVar[Cur], h |-> 0,
     raw |-> NoRet, hs |-> <<>>, bcc |-> FALSE,
     warn |-> "", cb |-> FALSE, tried |-> <<>>, cbs |-> <<>>,
     ann |-> [cls |-> "", args |-> <<>>]]

\* the guards still open after the guard h is exited: an exit closes the most recently
\* entered open scope of h, and the exit of a guard that is not open closes nothing
RECURSIVE CloseGuard(_, _)
CloseGuard(o, h) ==
    IF o = <<>> THEN <<>>
    ELSE IF o[Len(o)] = h THEN SubSeq(o, 1, Len(o) - 1)
    ELSE Append(CloseGuard(SubSeq(o, 1, Len(o) - 1), h), o[Len(o)])

\* the programs that bind keep two stacks, and are explored with shorter ones
StackLimit ==
    CASE pool = BindHandlers -> MaxBindStack
      [] pool = ThreadHandlers -> MaxThreadStack
      [] pool = TypedHandlers -> MaxTypedStack
      [] pool = UtilHandlers -> MaxUtilStack
      [] pool = SnapHandlers -> MaxSnapStack
      [] pool = ScanHandlers -> MaxScanStack
      [] pool = NestHandlers -> MaxNestStack
      [] pool = AcquireHandlers -> MaxAcquireStack
      [] pool = ReenterHandlers -> MaxReenterStack
      [] pool = ScopedHandlers -> MaxScopedStack
      [] OTHER -> MaxStack

\* h = handler(f) or h = handler(f, effect_type): the object, or the TypeError of
\* line 205
ScriptHandler(h) ==
    /\ Running("script")
    /\ h \in pool
    /\ frames' = WithOp([CallOp("handler", NoEff, TRUE) EXCEPT !.h = h])
    /\ ret' = IF HandlerResult(Decl(h)).ok THEN Val(h) ELSE Exc("TypeError", 0)
    /\ UNCHANGED <<stackVar, ptrVar, heap, made, entered, pool, trace, open,
                   captured, gen, parked>>

\* with h: ...  enters the guard (h is an object that handler() returned); the block
\* is entered, and left through __exit__ later, only when __enter__ returns
ScriptInstall(h) ==
    /\ Running("script")
    /\ h \in pool
    /\ HandlerResult(Decl(h)).ok
    /\ Len(Contents(stackVar, heap, Cur)) < StackLimit
    /\ LET w == Enter(W, Cur, h, Fresh(stackVar, frames, {}))
       IN  Commit(w.sv, w.hp,
                  WithOp([CallOp("install", NoEff, TRUE) EXCEPT
                             !.h = h,
                             !.cbs = OnEnterCalls(h, Contents(w.sv, w.hp, Cur))]))
    /\ ret' = EnterOutcome(h)
    /\ open' = [open EXCEPT ![Cur] = IF EnterOutcome(h).k = "exc" THEN @ ELSE Append(@, h)]
    /\ UNCHANGED <<ptrVar, made, entered, pool, trace, captured, gen>>

\* the end of a with block, or a direct h.__exit__(None, None, None)
ScriptRelease(h) ==
    /\ Running("script")
    /\ h \in pool
    /\ LET w == Exit(W, Cur, h, Fresh(stackVar, frames, {}))
       IN  Commit(w.sv, w.hp,
                  WithOp([CallOp("release", NoEff, TRUE) EXCEPT
                             !.h = h,
                             !.cbs = OnExitCalls(h, StackOf(Cur),
                                                 Contents(w.sv, w.hp, Cur), NoRet),
                             !.warn = ExitWarning(StackOf(Cur), h),
                             !.cb = ExitCallsOnExit(StackOf(Cur), h)]))
    /\ ret' = ExitOutcome(StackOf(Cur), h)
    /\ open' = [open EXCEPT ![Cur] = CloseGuard(@, h)]
    /\ UNCHANGED <<ptrVar, made, entered, pool, trace, captured, gen>>

\* the with statement after the body raised e and __exit__(type(e), e, tb) returned or
\* raised x: a true return value suppresses e, an exception replaces it, anything
\* else lets e propagate
WithOutcome(x, e) ==
    IF x.k = "exc" THEN x
    ELSE IF x.x # 0 THEN PyNone
    ELSE e

\* with h: <body>  where the last call of the body raised and the body did not catch
\* it: the innermost open scope is left through h.__exit__(type(e), e, tb)
ScriptUnwind ==
    /\ Returned("script")
    /\ ret.k = "exc"
    /\ Top.op.name \in {"send", "safe_send", "unwind"}
    /\ open[Cur] # <<>>
    /\ LET h == open[Cur][Len(open[Cur])]
           w == Exit(W, Cur, h, Fresh(stackVar, frames, {}))
       IN  /\ Commit(w.sv, w.hp,
                     WithOp([CallOp("unwind", NoEff, TRUE) EXCEPT
                                !.h = h,
                                !.cbs = OnExitCalls(h, StackOf(Cur),
                                                    Contents(w.sv, w.hp, Cur), ret),
                                !.raw = ret,
                                !.warn = ExitWarning(StackOf(Cur), h),
                                !.cb = ExitCallsOnExit(StackOf(Cur), h)]))
           /\ ret' = WithOutcome(ExitOutcome(StackOf(Cur), h), ret)
           /\ open' = [open EXCEPT ![Cur] = CloseGuard(@, h)]
    /\ UNCHANGED <<ptrVar, made, entered, pool, trace, captured, gen>>

\* result = send(cls(), interpret_final=final)
ScriptSend(cls, final) ==
    /\ Running("script")
    /\ Len(frames) < MaxDepth
    /\ LET e == [id |-> NewEffId, cls |-> cls, arg |-> ""]
       IN  /\ CallSend(WithOp(CallOp("send", e, final)), e, final)
    /\ trace' = TrimTrace(Len(frames))
    /\ UNCHANGED <<ret, made, entered, pool, open, captured, gen>>

\* result = send(Box(v)) where the payload v is of type arg
ScriptSendBox(arg) ==
    /\ Running("script")
    /\ Len(frames) < MaxDepth
    /\ LET e == [id |-> NewEffId, cls |-> "Box", arg |-> arg]
       IN  /\ CallSend(WithOp(CallOp("send", e, TRUE)), e, TRUE)
    /\ trace' = TrimTrace(Len(frames))
    /\ UNCHANGED <<ret, made, entered, pool, open, captured, gen>>

\* result = safe_send(cls(), interpret_final=final, default_value=d): line 293 calls send
ScriptSafeSend(cls, final) ==
    /\ Running("script")
    /\ Len(frames) + 1 < MaxDepth
    /\ LET e == [id |-> NewEffId, cls |-> cls, arg |-> ""]
           f == [Frame("safe", Cur) EXCEPT !.eff = e, !.final = final]
       IN  /\ CallSend(Append(WithOp(CallOp("safe_send", e, final)), f), e, final)
    /\ trace' = TrimTrace(Len(frames))
    /\ UNCHANGED <<ret, made, entered, pool, open, captured, gen>>

\* the script has received what its call returned or raised (ret), and goes on
ScriptResume ==
    /\ Returned("script")
    /\ frames' = WithOp(NoOp)
    /\ ret' = NoRet
    /\ trace' = TrimTrace(Len(frames))
    /\ gen' = [gen EXCEPT !.last = NoRet]
    /\ UNCHANGED <<stackVar, ptrVar, heap, made, entered, pool, open, captured, parked>>

-----------------------------------------------------------------------------
(* The loop of send, lines 239-245, one iteration per step *)

SendCandidate == ListGet(heap[Top.stack], Top.ptr)

Scanning ==
    /\ Running("send")
    /\ Top.pc = "scan"

\* the candidate matches: its callable is about to run (line 244)
SendMatch ==
    /\ Scanning
    /\ Top.ptr >= 0
    /\ Top.ptr < Len(heap[Top.stack])
    /\ ~IsInstanceRaises(EffectType(SendCandidate))
    /\ Matches(Top.eff, SendCandidate)
    /\ frames' = [frames EXCEPT ![Len(frames)] =
                     [@ EXCEPT !.ptr = NextPtr(Top.ptr), !.pc = "call",
                               !.h = SendCandidate, !.idx = Top.ptr]]
    /\ ptrVar' = [ptrVar EXCEPT ![Cur] = Some(NextPtr(Top.ptr))]
    /\ trace' = Append(trace, [h |-> SendCandidate, idx |-> Top.ptr,
                               d |-> Len(frames), eff |-> Top.eff,
                               res |-> NoRet])
    /\ UNCHANGED <<stackVar, heap, ret, made, entered, pool, open, captured, gen, parked>>

\* the candidate does not match: next iteration
SendSkip ==
    /\ Scanning
    /\ Top.ptr >= 0
    /\ Top.ptr < Len(heap[Top.stack])
    /\ ~IsInstanceRaises(EffectType(SendCandidate))
    /\ ~Matches(Top.eff, SendCandidate)
    /\ frames' = [frames EXCEPT ![Len(frames)] = [@ EXCEPT !.ptr = NextPtr(Top.ptr)]]
    /\ ptrVar' = [ptrVar EXCEPT ![Cur] = Some(NextPtr(Top.ptr))]
    /\ UNCHANGED <<stackVar, heap, ret, made, entered, pool, trace,
                   open, captured, gen, parked>>

\* the test of line 243 raises TypeError: the finally clause, then out of send
SendCheckRaises ==
    /\ Scanning
    /\ Top.ptr >= 0
    /\ Top.ptr < Len(heap[Top.stack])
    /\ IsInstanceRaises(EffectType(SendCandidate))
    /\ EndSend(Exc("TypeError", 0))
    /\ UNCHANGED <<made, entered, pool, open, captured, gen>>

\* the loop ends without a match: raise NoHandlerError(effect), line 245
SendExhausted ==
    /\ Scanning
    /\ Top.ptr < 0
    /\ EndSend(NoHandlerError(Top.eff))
    /\ UNCHANGED <<made, entered, pool, open, captured, gen>>

-----------------------------------------------------------------------------
(* The handler callables, run by line 244 *)

InHandler(kind) ==
    /\ Running("send")
    /\ Top.pc = "call"
    /\ HKind(Top.h) = kind

\* what a "ret" callable returns: a value that names the handler object
HandlerValue(h) == Val(h)

HandlerReturn ==
    /\ InHandler("ret")
    /\ EndSend(HandlerValue(Top.h))
    /\ UNCHANGED <<made, entered, pool, open, captured, gen>>

\* barrier's _raise, lines 312-313
\* faulty variant: the barrier's callable returns None
BarrierSilent(e) == PyNone

\* barrier's _raise, lines 312-313
BarrierOutcome(e) == NoHandlerError(e)

BarrierRaise ==
    /\ InHandler("barrier")
    /\ EndSend(BarrierOutcome(Top.eff))
    /\ UNCHANGED <<made, entered, pool, open, captured, gen>>

HandlerRaise ==
    /\ InHandler("raise")
    /\ EndSend(Exc("ValueError", 0))
    /\ UNCHANGED <<made, entered, pool, open, captured, gen>>

Waiting == [frames EXCEPT ![Len(frames)] = [@ EXCEPT !.pc = "wait"]]

\* return send(effect, interpret_final=False)
HandlerForward ==
    /\ InHandler("fwd")
    /\ Len(frames) < MaxDepth
    /\ CallSend(Waiting, Top.eff, FALSE)
    /\ UNCHANGED <<ret, made, entered, pool, trace, open, captured, gen>>

\* return send(type(effect)(), interpret_final=False)
HandlerForwardNew ==
    /\ InHandler("fwdNew")
    /\ Len(frames) < MaxDepth
    /\ CallSend(Waiting, [id |-> NewEffId, cls |-> Top.eff.cls, arg |-> ""], FALSE)
    /\ UNCHANGED <<ret, made, entered, pool, trace, open, captured, gen>>

\* return send(B())
HandlerSendOther ==
    /\ InHandler("sendB")
    /\ Len(frames) < MaxDepth
    /\ CallSend(Waiting, [id |-> NewEffId, cls |-> "B", arg |-> ""], TRUE)
    /\ UNCHANGED <<ret, made, entered, pool, trace, open, captured, gen>>

\* the guard g of the scope that a "scoped" callable opens: the handler object of the
\* program whose callable returns a value
ScopeGuard == CHOOSE h \in ScopedHandlers : HKind(h) = "ret"

\* with g: in a "scoped" callable: g.__enter__()
HandlerScopeEnter ==
    /\ InHandler("scoped")
    /\ LET w == Enter(W, Cur, ScopeGuard, Fresh(stackVar, frames, {}))
       IN  Commit(w.sv, w.hp, [frames EXCEPT ![Len(frames)] = [@ EXCEPT !.pc = "in"]])
    /\ UNCHANGED <<ptrVar, ret, made, entered, pool, trace, open, captured, gen>>

\* return send(e, interpret_final=False) in the scope
HandlerScopeForward ==
    /\ Running("send")
    /\ Top.pc = "in"
    /\ Len(frames) < MaxDepth
    /\ CallSend([frames EXCEPT ![Len(frames)] = [@ EXCEPT !.pc = "inwait"]],
                Top.eff, FALSE)
    /\ UNCHANGED <<ret, made, entered, pool, trace, open, captured, gen>>

\* the send came back and the scope is left: g.__exit__(...), which returns None, so
\* what the send returned or raised is what the callable returns or raises
HandlerScopeExit ==
    /\ Returned("send")
    /\ Top.pc = "inwait"
    /\ LET w == Exit(W, Cur, ScopeGuard, Fresh(stackVar, frames, {}))
       IN  Commit(w.sv, w.hp, [frames EXCEPT ![Len(frames)] = [@ EXCEPT !.pc = "wait"]])
    /\ UNCHANGED <<ptrVar, ret, made, entered, pool, trace, open, captured, gen>>

\* the callable's own send came back: the callable returns or raises the same, and
\* send's finally clause runs
SendResume ==
    /\ Returned("send")
    /\ Top.pc = "wait"
    /\ EndSend(ret)
    /\ UNCHANGED <<made, entered, pool, open, captured, gen>>

-----------------------------------------------------------------------------
(* safe_send, lines 292-297 *)

\* faulty variant: every NoHandlerError is swallowed
SafeCatchAny(r, e) ==
    IF r.k = "exc" /\ r.t = "NoHandlerError" THEN DefaultValue ELSE r

\* faulty variant: safe_send re-raises every exception
SafeCatchNever(r, e) == r

\* faulty variant: every exception is turned into the default value
SafeCatchEverything(r, e) == IF r.k = "exc" THEN DefaultValue ELSE r

SafeCatch(r, e) ==
    IF r.k = "exc" /\ r.t = "NoHandlerError"
    THEN (IF r.x # e.id THEN r ELSE DefaultValue)
    ELSE r

SafeResume ==
    /\ Returned("safe")
    /\ frames' = [k \in 1..(Len(frames) - 1) |->
                     IF k = Len(frames) - 1
                     THEN [frames[k] EXCEPT !.op = [@ EXCEPT !.raw = ret]]
                     ELSE frames[k]]
    /\ ret' = SafeCatch(ret, Top.eff)
    /\ UNCHANGED <<stackVar, ptrVar, heap, made, entered, pool, trace,
                   open, captured, gen, parked>>

-----------------------------------------------------------------------------
(* Specification of a program that uses one context *)

AllFalse == [b \in BoundCtx |-> FALSE]

NoThread == [frames |-> <<>>, ret |-> NoRet, trace |-> <<>>]

\* no generator object exists.  st: "none", "new" (created, not started), "running"
\* (in its first step), "suspended" (at a yield), "resumed" (running a later step),
\* "done"; last: history, what the underlying generator yielded, returned or raised
\* in the step just driven
NoGen == [st |-> "none", last |-> NoRet]

InitWith(p) ==
    /\ stackVar = [c \in Contexts |-> 0]
    /\ ptrVar = [c \in Contexts |-> None]
    /\ heap = EmptyHeap
    /\ frames = <<Frame("script", "main")>>
    /\ ret = NoRet
    /\ made = [c \in BoundCtx \cup ThreadCtx |-> "no"]
    /\ entered = AllFalse
    /\ pool = p
    /\ trace = <<>>
    /\ open = [c \in Contexts |-> <<>>]
    /\ captured = [c \in Contexts |-> <<>>]
    /\ gen = NoGen
    /\ parked = NoThread

Init == InitWith(CoreHandlers)

Sendable == {"A", "A1", "B"}

Next ==
    \/ \E h \in Handlers : ScriptInstall(h)
    \/ \E h \in Handlers : ScriptRelease(h)
    \/ \E cls \in Sendable, final \in BOOLEAN : ScriptSend(cls, final)
    \/ \E cls \in Sendable, final \in BOOLEAN : ScriptSafeSend(cls, final)
    \/ ScriptUnwind
    \/ ScriptResume
    \/ SendMatch
    \/ SendSkip
    \/ SendExhausted
    \/ HandlerReturn
    \/ BarrierRaise
    \/ HandlerRaise
    \/ HandlerForward
    \/ HandlerForwardNew
    \/ HandlerSendOther
    \/ SendResume
    \/ SafeResume

Spec == Init /\ [][Next]_vars

-----------------------------------------------------------------------------
(* bind, lines 350-376 *)

RECURSIVE EnterAllRun(_, _, _, _, _, _)
\* util.stack.__enter__, lines 25-26: the loop calls the __enter__ of the guards in the
\* given order; an __enter__ that raises ends the loop.
\* tried: the guards whose __enter__ has been called; cbs: the callbacks called
EnterAllRun(w, c, hs, fr, keep, tried) ==
    IF hs = <<>> THEN [w |-> w, out |-> PyNone, tried |-> tried, cbs |-> <<>>]
    ELSE LET h == Head(hs)
             w1 == Enter(w, c, h, Fresh(w.sv, fr, keep))
             calls == OnEnterCalls(h, Contents(w1.sv, w1.hp, c))
             out == EnterOutcome(h)
         IN  IF out.k = "exc"
             THEN [w |-> w1, out |-> out, tried |-> Append(tried, h), cbs |-> calls]
             ELSE LET r == EnterAllRun(w1, c, Tail(hs), fr, keep, Append(tried, h))
                  IN  [r EXCEPT !.cbs = calls \o @]

\* util.stack.__enter__, lines 25-26: the world it leaves
EnterAll(w, c, hs, fr, keep) == EnterAllRun(w, c, hs, fr, keep, <<>>).w

RECURSIVE ExitAllRun(_, _, _, _, _, _)
\* util.stack.__exit__, lines 39-41: the loop calls the __exit__ of the guards in
\* reverse order; an __exit__ that raises ends the loop, line 41 returns False.
\* tried: the guards whose __exit__ has been called, in the order of the calls;
\* cbs: the callbacks called
ExitAllRun(w, c, hs, fr, keep, tried) ==
    IF hs = <<>> THEN [w |-> w, out |-> PyNone, tried |-> tried, cbs |-> <<>>]
    ELSE LET h == hs[Len(hs)]
             w1 == Exit(w, c, h, Fresh(w.sv, fr, keep))
             calls == OnExitCalls(h, Contents(w.sv, w.hp, c),
                                  Contents(w1.sv, w1.hp, c), NoRet)
             out == ExitOutcome(Contents(w.sv, w.hp, c), h)
         IN  IF out.k = "exc"
             THEN [w |-> w1, out |-> out, tried |-> Append(tried, h), cbs |-> calls]
             ELSE LET r == ExitAllRun(w1, c, SubSeq(hs, 1, Len(hs) - 1), fr, keep,
                                      Append(tried, h))
                  IN  [r EXCEPT !.cbs = calls \o @]

\* util.stack.__exit__, lines 39-40: the world it leaves
ExitAll(w, c, hs, fr, keep) == ExitAllRun(w, c, hs, fr, keep, <<>>).w

\* faulty variant: the captured context keeps the pointer of the caller
CapturedPtrCaller(callerPtr) == callerPtr

\* line 352: the pointer the captured context holds
CapturedPtr(callerPtr) == None

\* faulty variant: the binding always starts from the stack of the calling context
BindWorldCurrent(w, c, b, hs, bcc, fr) ==
    LET w0 == GetStack(w, c, Fresh(w.sv, fr, {}))
        old == w0.sv[c]
        w2 == EnterAll(w0, c, hs, fr, {old})
        w3 == [w2 EXCEPT !.sv[b] = w2.sv[c]]
        w4 == ExitAll(w3, c, hs, fr, {old})
    IN  [w4 EXCEPT !.sv[c] = old]

\* faulty variant: the stack variable is left as bind set it
ResetStackSkipped(tok, curList) == curList

\* _STACK_VAR.reset(old_stack), line 358: the value the variable had when the token
\* was made
ResetStack(tok, curList) == tok

\* lines 350-359, called in context c with the guards hs; b names the Context object
\* that copy_context() returns.  The result is the world after the finally clause,
\* how the with statement ended (out), and the callbacks it called (cbs).  When
\* stack.__enter__ raises, the block and stack.__exit__ do not run and no context is
\* captured; when stack.__exit__ raises, the context that was captured is lost.
BindRun(w, c, b, hs, bcc, fr) ==
    LET w0 == IF bcc THEN GetStack(w, c, Fresh(w.sv, fr, {})) ELSE w
        base == IF bcc THEN w0.sv[c] ELSE 0
        old == w0.sv[c]
        w1 == [w0 EXCEPT !.sv[c] = base]
        r2 == EnterAllRun(w1, c, hs, fr, {old}, <<>>)
        w3 == [r2.w EXCEPT !.sv[b] = r2.w.sv[c]]
        r4 == ExitAllRun(w3, c, hs, fr, {old}, <<>>)
    IN  IF r2.out.k = "exc"
        THEN [w |-> [r2.w EXCEPT !.sv[c] = ResetStack(old, @)],
              out |-> r2.out, cbs |-> r2.cbs]
        ELSE IF r4.out.k = "exc"
        THEN [w |-> [r4.w EXCEPT !.sv[c] = ResetStack(old, @), !.sv[b] = w.sv[b]],
              out |-> r4.out, cbs |-> r2.cbs \o r4.cbs]
        ELSE [w |-> [r4.w EXCEPT !.sv[c] = ResetStack(old, @)],
              out |-> PyNone, cbs |-> r2.cbs \o r4.cbs]

\* lines 350-359: the world bind leaves
BindWorld(w, c, b, hs, bcc, fr) == BindRun(w, c, b, hs, bcc, fr).w

\* faulty variant: the computation runs in the context of its caller
RunContextCaller(b, caller) == caller

\* ctx.run, lines 363-372: the context the computation runs in
RunContext(b, caller) == b

\* bound = bind(computation, *hs, bind_current_context=bcc)
ScriptBind(b, hs, bcc) ==
    /\ Running("script")
    /\ made[b] = "no"
    /\ Cur # b
    /\ \A i \in 1..Len(hs) : hs[i] \in pool
    /\ Len(hs) + (IF bcc THEN Len(Contents(stackVar, heap, Cur)) ELSE 0) <= StackLimit
    /\ LET r == BindRun(W, Cur, b, hs, bcc, frames)
           w == BindWorld(W, Cur, b, hs, bcc, frames)
       IN  /\ Commit(w.sv, w.hp, WithOp([CallOp("bind", NoEff, TRUE) EXCEPT
                                               !.hs = hs, !.bcc = bcc, !.cbs = r.cbs]))
           /\ ret' = r.out
           /\ IF r.out.k = "exc"
              THEN UNCHANGED <<captured, ptrVar, made>>
              ELSE /\ captured' = [captured EXCEPT ![b] = Contents(w.sv, w.hp, b)]
                   /\ ptrVar' = [ptrVar EXCEPT ![b] = CapturedPtr(ptrVar[Cur])]
                   /\ made' = [made EXCEPT ![b] = IF bcc THEN "current" ELSE "passed"]
    /\ UNCHANGED <<entered, pool, trace, open, gen>>

\* faulty variant: a context can be entered while it is entered
ContextNeverEntered(b) == FALSE

\* ctx.run, line 372: Context.run refuses a context that a run of it has entered and
\* not left, in this thread or another
ContextEntered(b) == entered[b]

\* result = bound(): _run_function, line 372, enters the captured context and runs the
\* computation, a script, in it
ScriptInvoke(b) ==
    /\ Running("script")
    /\ made[b] # "no"
    /\ ~ContextEntered(b)
    /\ Len(frames) < MaxDepth
    /\ frames' = Append(WithOp(CallOp("invoke", NoEff, TRUE)),
                        Frame("script", RunContext(b, Cur)))
    /\ entered' = [entered EXCEPT ![b] = TRUE]
    /\ UNCHANGED <<stackVar, ptrVar, heap, ret, made, pool, trace, open,
                   captured, gen, parked>>

\* result = bound() while the captured context is entered: Context.run raises
\* RuntimeError (cannot enter context: already entered)
ScriptInvokeEntered(b) ==
    /\ Running("script")
    /\ made[b] # "no"
    /\ ContextEntered(b)
    /\ frames' = WithOp(CallOp("invoke", NoEff, TRUE))
    /\ ret' = Exc("RuntimeError", 0)
    /\ UNCHANGED <<stackVar, ptrVar, heap, made, entered, pool, trace, open,
                   captured, gen, parked>>

\* the computation returns None, or returns or raises what its last call returned or
\* raised; Context.run leaves the context
ScriptReturn ==
    /\ Top.kind = "script"
    /\ Len(frames) > 1
    /\ frames' = SubSeq(frames, 1, Len(frames) - 1)
    /\ ret' = IF ret = NoRet THEN PyNone ELSE ret
    /\ entered' = [b \in BoundCtx |-> FALSE]
    /\ UNCHANGED <<stackVar, ptrVar, heap, made, pool, trace, open, captured, gen, parked>>

\* bound = bind(computation, *hs, bind_current_context=bcc) in a handler callable,
\* with guards whose callbacks do not raise
HandlerBind(b, hs, bcc) ==
    /\ InHandler("bindInvoke")
    /\ made[b] = "no"
    /\ Cur # b
    /\ \A i \in 1..Len(hs) : hs[i] \in pool
    /\ BindRun(W, Cur, b, hs, bcc, frames).out = PyNone
    /\ Len(hs) + (IF bcc THEN Len(Contents(stackVar, heap, Cur)) ELSE 0) <= StackLimit
    /\ LET w == BindWorld(W, Cur, b, hs, bcc, frames)
       IN  /\ Commit(w.sv, w.hp, frames)
           /\ captured' = [captured EXCEPT ![b] = Contents(w.sv, w.hp, b)]
    /\ ptrVar' = [ptrVar EXCEPT ![b] = CapturedPtr(ptrVar[Cur])]
    /\ made' = [made EXCEPT ![b] = IF bcc THEN "current" ELSE "passed"]
    /\ UNCHANGED <<ret, entered, pool, trace, open, gen>>

\* return bound() in a handler callable: _run_function, line 372
HandlerInvoke(b) ==
    /\ InHandler("bindInvoke")
    /\ made[b] # "no"
    /\ ~ContextEntered(b)
    /\ Len(frames) < MaxDepth
    /\ frames' = Append(Waiting, Frame("script", RunContext(b, Cur)))
    /\ entered' = [entered EXCEPT ![b] = TRUE]
    /\ UNCHANGED <<stackVar, ptrVar, heap, ret, made, pool, trace, open,
                   captured, gen, parked>>

\* return bound() in a handler callable while the captured context is entered:
\* Context.run raises RuntimeError, and the callable with it
HandlerInvokeEntered(b) ==
    /\ InHandler("bindInvoke")
    /\ made[b] # "no"
    /\ ContextEntered(b)
    /\ EndSend(Exc("RuntimeError", 0))
    /\ UNCHANGED <<made, entered, pool, open, captured, gen>>

\* bind(computation, *hs, bind_current_context=bcc) in a handler callable that does
\* not keep what bind returns: the frame keeps how bind ended
HandlerBindOnly(b, hs, bcc) ==
    /\ InHandler("bindOnly")
    /\ Cur # b
    /\ \A i \in 1..Len(hs) : hs[i] \in pool
    /\ Len(hs) + (IF bcc THEN Len(Contents(stackVar, heap, Cur)) ELSE 0) <= StackLimit
    /\ LET r == BindRun(W, Cur, b, hs, bcc, frames)
           w == [r.w EXCEPT !.sv[b] = stackVar[b]]
       IN  Commit(w.sv, w.hp,
                  [frames EXCEPT ![Len(frames)] =
                      [@ EXCEPT !.pc = "bound", !.op = [NoOp EXCEPT !.raw = r.out]]])
    /\ UNCHANGED <<ptrVar, ret, made, entered, pool, trace, open, captured, gen>>

\* the callable returns None, or raises what bind raised
HandlerBindEnd ==
    /\ Running("send")
    /\ Top.pc = "bound"
    /\ EndSend(Top.op.raw)
    /\ UNCHANGED <<made, entered, pool, open, captured, gen>>

-----------------------------------------------------------------------------
(* Specification of a program that binds a computation and runs it *)

InitBind == InitWith(BindHandlers)

BindArgs == {<<>>} \cup {<<h>> : h \in BindHandlers}
                   \cup {<<h, g>> : h \in BindHandlers, g \in BindHandlers}

NextBind ==
    \/ \E h \in BindHandlers : ScriptInstall(h)
    \/ \E h \in BindHandlers : ScriptRelease(h)
    \/ \E cls \in {"A", "A1"} : ScriptSend(cls, TRUE)
    \/ \E hs \in BindArgs, bcc \in BOOLEAN : ScriptBind("b1", hs, bcc)
    \/ ScriptInvoke("b1")
    \/ ScriptInvokeEntered("b1")
    \/ ScriptReturn
    \/ ScriptResume
    \/ SendMatch
    \/ SendSkip
    \/ SendExhausted
    \/ HandlerReturn

SpecBind == InitBind /\ [][NextBind]_vars

-----------------------------------------------------------------------------
(* Specification of a program whose handler callables bind a computation    *)
(* and run it                                                               *)

InitNest == InitWith(NestHandlers)

NestArgs == {<<>>, <<1>>, <<30, 1>>}

NextNest ==
    \/ \E h \in NestHandlers : ScriptInstall(h)
    \/ \E h \in NestHandlers : ScriptRelease(h)
    \/ \E final \in BOOLEAN : ScriptSend("A", final)
    \/ ScriptSend("B", TRUE)
    \/ ScriptInvoke("b1")
    \/ ScriptInvokeEntered("b1")
    \/ ScriptReturn
    \/ ScriptResume
    \/ SendMatch
    \/ SendSkip
    \/ SendExhausted
    \/ HandlerReturn
    \/ \E hs \in NestArgs, bcc \in BOOLEAN : HandlerBind("b1", hs, bcc)
    \/ HandlerInvoke("b1")
    \/ HandlerInvokeEntered("b1")
    \/ SendResume

SpecNest == InitNest /\ [][NextNest]_vars

-----------------------------------------------------------------------------
(* bind of a generator function, lines 361-368 and 374-375 *)

\* faulty variant: a step of the generator runs in the context of whoever drives it
StepContextCaller(b, caller) == caller

\* line 366, ctx.run(next, g): the context a step of the underlying generator runs in
StepContext(b, caller) == b

\* faulty variant: the wrapper yields nothing of what the underlying generator yields
WrapperYieldNone(r) == PyNone

\* line 366, yield ctx.run(next, g): what the wrapper yields when the underlying
\* generator has yielded r
WrapperYield(r) == r

\* lines 367-368: what next() on the wrapper raises when the underlying generator
\* has returned r (StopIteration carrying the value) or has raised r
WrapperEnd(r) == IF r.k = "exc" THEN r ELSE Exc("StopIteration", r.x)

\* it = bound(): calling the generator function _run_generator runs none of its body
ScriptGenCall(b) ==
    /\ Running("script")
    /\ made[b] # "no"
    /\ gen.st = "none"
    /\ gen' = [gen EXCEPT !.st = "new"]
    /\ frames' = WithOp(CallOp("gencall", NoEff, TRUE))
    /\ ret' = PyNone
    /\ UNCHANGED <<stackVar, ptrVar, heap, made, entered, pool, trace, open, captured, parked>>

\* next(it) on a generator that is not started or is suspended at a yield: the wrapper
\* runs to line 366 and the underlying generator runs in the captured context
ScriptGenNext(b) ==
    /\ Running("script")
    /\ gen.st \in {"new", "suspended"}
    /\ ~entered[b]
    /\ Len(frames) < MaxDepth
    /\ frames' = Append(WithOp(CallOp("next", NoEff, TRUE)),
                        Frame("script", StepContext(b, Cur)))
    /\ entered' = [entered EXCEPT ![b] = TRUE]
    /\ gen' = [gen EXCEPT !.st = IF @ = "new" THEN "running" ELSE "resumed"]
    /\ UNCHANGED <<stackVar, ptrVar, heap, ret, made, pool, trace, open, captured, parked>>

\* next(it) on a generator that has returned or raised: StopIteration
ScriptGenNextDone ==
    /\ Running("script")
    /\ gen.st = "done"
    /\ frames' = WithOp(CallOp("next", NoEff, TRUE))
    /\ ret' = Exc("StopIteration", 0)
    /\ gen' = [gen EXCEPT !.last = PyNone]
    /\ UNCHANGED <<stackVar, ptrVar, heap, made, entered, pool, trace, open, captured, parked>>

\* the body of the generator: the top frame, while the generator runs
InGenerator == gen.st \in {"running", "resumed"} /\ Top.kind = "script" /\ Len(frames) > 1

\* what the body yields or returns: the value its last call returned, or None
BodyValue == IF ret # NoRet /\ ret.k = "val" THEN ret ELSE PyNone

\* the underlying generator yields: ctx.run returns the value, the context is left,
\* and the wrapper yields it to the caller of next
GenYield ==
    /\ InGenerator
    /\ ret = NoRet \/ ret.k = "val"
    /\ frames' = SubSeq(frames, 1, Len(frames) - 1)
    /\ ret' = WrapperYield(BodyValue)
    /\ gen' = [gen EXCEPT !.st = "suspended", !.last = BodyValue]
    /\ entered' = AllFalse
    /\ trace' = TrimTrace(Len(frames) - 1)
    /\ UNCHANGED <<stackVar, ptrVar, heap, made, pool, open, captured, parked>>

\* the underlying generator returns a value or an exception leaves it
GenEnd ==
    /\ InGenerator
    /\ frames' = SubSeq(frames, 1, Len(frames) - 1)
    /\ LET r == IF ret # NoRet /\ ret.k = "exc" THEN ret ELSE BodyValue
       IN  /\ ret' = WrapperEnd(r)
           /\ gen' = [gen EXCEPT !.st = "done", !.last = r]
    /\ entered' = AllFalse
    /\ trace' = TrimTrace(Len(frames) - 1)
    /\ UNCHANGED <<stackVar, ptrVar, heap, made, pool, open, captured, parked>>

GenArgs == {<<>>, <<8>>}

NextGen ==
    \/ \E h \in BindHandlers : ScriptInstall(h)
    \/ \E h \in BindHandlers : ScriptRelease(h)
    \/ \E cls \in {"A", "A1"} : ScriptSend(cls, TRUE)
    \/ \E hs \in GenArgs, bcc \in BOOLEAN : ScriptBind("b1", hs, bcc)
    \/ ScriptGenCall("b1")
    \/ ScriptGenNext("b1")
    \/ ScriptGenNextDone
    \/ GenYield
    \/ GenEnd
    \/ ScriptResume
    \/ SendMatch
    \/ SendSkip
    \/ SendExhausted
    \/ HandlerReturn

SpecGen == InitBind /\ [][NextGen]_vars

-----------------------------------------------------------------------------
(* Threads and child contexts.  A ContextVar is local to the context it is   *)
(* read in: a new thread starts with an empty context, and                   *)
(* contextvars.copy_context() gives a child the values of its parent, that   *)
(* is, references to the same objects.  Two threads are modelled, the one    *)
(* that runs and the one in parked; ThreadSwitch may happen between any two  *)
(* steps.                                                                    *)

\* faulty variant: a new thread starts with the values of the context that starts it
SeedStackInherited(sv, parent, copied) == sv[parent]

\* the value of _STACK_VAR a context starts with, lines 95-97: the default None in a
\* new thread, the parent's list object in a copy of the parent's context
SeedStack(sv, parent, copied) == IF copied THEN sv[parent] ELSE 0

\* the value of _PTR_VAR a context starts with, lines 98-100
SeedPtr(pv, parent, copied) == IF copied THEN pv[parent] ELSE None

\* the stack and the pointer that the contexts cs start with
Seeded(sv, parent, cs, copied) ==
    [x \in Contexts |-> IF x \in cs THEN SeedStack(sv, parent, copied) ELSE sv[x]]

\* the main program starts a thread (or task) that runs a script in the context c.
\* When the thread gets a copy of the context of the main program, a second copy,
\* sib, is taken at the same time; nothing runs in it.
Spawn(c, sib, copied) ==
    /\ Running("script")
    /\ Cur = "main"
    /\ made[c] = "no"
    /\ parked.frames = <<>>
    /\ LET cs == IF copied THEN {c, sib} ELSE {c}
           sv == Seeded(stackVar, Cur, cs, copied)
       IN  /\ CommitAll(sv, heap, frames,
                        [frames |-> <<Frame("script", c)>>, ret |-> NoRet, trace |-> <<>>])
           /\ captured' = [x \in Contexts |->
                              IF x \in cs THEN Contents(sv, heap, x) ELSE captured[x]]
           /\ ptrVar' = [x \in Contexts |->
                            IF x \in cs THEN SeedPtr(ptrVar, Cur, copied) ELSE ptrVar[x]]
           /\ made' = [x \in DOMAIN made |->
                          IF x \in cs THEN (IF copied THEN "copied" ELSE "empty")
                          ELSE made[x]]
    /\ UNCHANGED <<ret, entered, pool, trace, open, gen>>

\* the scheduler lets the other thread run
ThreadSwitch ==
    /\ parked.frames # <<>>
    /\ CommitAll(stackVar, heap, parked.frames,
                 [frames |-> frames, ret |-> ret, trace |-> trace])
    /\ ret' = parked.ret
    /\ trace' = parked.trace
    /\ UNCHANGED <<ptrVar, made, entered, pool, open, captured, gen>>

InitThreads == InitWith(ThreadHandlers)

NextThreads ==
    \/ \E h \in ThreadHandlers : ScriptInstall(h)
    \/ \E h \in ThreadHandlers : ScriptRelease(h)
    \/ \E cls \in {"A", "B"} : ScriptSend(cls, TRUE)
    \/ \E copied \in BOOLEAN : Spawn("t1", "t2", copied)
    \/ ThreadSwitch
    \/ ScriptResume
    \/ SendMatch
    \/ SendSkip
    \/ SendExhausted
    \/ HandlerReturn

SpecThreads == InitThreads /\ [][NextThreads]_vars

-----------------------------------------------------------------------------
(* Specification of a program whose handler callables open scopes           *)

InitScoped == InitWith(ScopedHandlers)

NextScoped ==
    \/ \E h \in ScopedHandlers : ScriptInstall(h)
    \/ \E h \in ScopedHandlers : ScriptRelease(h)
    \/ \E cls \in {"A", "A1"}, final \in BOOLEAN : ScriptSend(cls, final)
    \/ ScriptResume
    \/ SendMatch
    \/ SendSkip
    \/ SendExhausted
    \/ HandlerReturn
    \/ HandlerForward
    \/ HandlerScopeEnter
    \/ HandlerScopeForward
    \/ HandlerScopeExit
    \/ SendResume

SpecScoped == InitScoped /\ [][NextScoped]_vars

-----------------------------------------------------------------------------
(* Specification of a program that invokes a bound computation from its     *)
(* computation, from handler callables and from two threads                 *)

InitReenter == InitWith(ReenterHandlers)

\* the one handler of the program binds the computation to itself, and every effect
\* the program sends is of its class
NextReenter ==
    \/ ScriptInstall(30)
    \/ ScriptRelease(30)
    \/ ScriptSend("A", TRUE)
    \/ ScriptInvoke("b1")
    \/ ScriptInvokeEntered("b1")
    \/ ScriptReturn
    \/ ScriptResume
    \/ SendMatch
    \/ SendExhausted
    \/ HandlerBind("b1", <<30>>, FALSE)
    \/ HandlerInvoke("b1")
    \/ HandlerInvokeEntered("b1")
    \/ SendResume
    \/ Spawn("t1", "t2", FALSE)
    \/ ThreadSwitch

SpecReenter == InitReenter /\ [][NextReenter]_vars

-----------------------------------------------------------------------------
(* Specification of a program whose handler callables return or forward     *)

\* the handler objects of the program: their callables return ("ret") or send with
\* interpret_final=False ("fwd", "fwdNew")
ForwardHandlers == {1, 2, 6}

InitForward == InitWith(ForwardHandlers)

\* a step of the thread inside send or inside a handler callable
SendStep ==
    \/ SendMatch
    \/ SendSkip
    \/ SendExhausted
    \/ HandlerReturn
    \/ HandlerForward
    \/ HandlerForwardNew
    \/ SendResume

NextForward ==
    \/ \E h \in ForwardHandlers : ScriptInstall(h)
    \/ \E h \in ForwardHandlers : ScriptRelease(h)
    \/ \E cls \in Sendable, final \in BOOLEAN : ScriptSend(cls, final)
    \/ ScriptResume
    \/ SendStep

\* the thread that called send keeps running until send returns or raises
SpecForward == InitForward /\ [][NextForward]_vars /\ WF_vars(SendStep)

-----------------------------------------------------------------------------
(* Specification of a program whose handler callables send twice            *)

\* the callable is inside its try block, waiting for its first send
InTry == [frames EXCEPT ![Len(frames)] = [@ EXCEPT !.pc = "wait1"]]

\* try: send(effect, interpret_final=False)
HandlerFirstForward ==
    /\ InHandler("two")
    /\ Len(frames) < MaxDepth
    /\ CallSend(InTry, Top.eff, FALSE)
    /\ UNCHANGED <<ret, made, entered, pool, trace, open, captured, gen>>

\* try: send(B())
HandlerFirstTop ==
    /\ InHandler("topTwo")
    /\ Len(frames) < MaxDepth
    /\ CallSend(InTry, [id |-> NewEffId, cls |-> "B", arg |-> ""], TRUE)
    /\ UNCHANGED <<ret, made, entered, pool, trace, open, captured, gen>>

\* the first send returned or raised (except Exception: pass); the callable goes on
\* with  return send(effect, interpret_final=False)
HandlerSecondForward ==
    /\ Returned("send")
    /\ Top.pc = "wait1"
    /\ CallSend(Waiting, Top.eff, FALSE)
    /\ ret' = NoRet
    /\ UNCHANGED <<made, entered, pool, trace, open, captured, gen>>

InitScan == InitWith(ScanHandlers)

NextScan ==
    \/ \E h \in ScanHandlers : ScriptInstall(h)
    \/ \E h \in ScanHandlers : ScriptRelease(h)
    \/ ScriptSend("A", TRUE)
    \/ ScriptResume
    \/ SendMatch
    \/ SendSkip
    \/ SendExhausted
    \/ HandlerReturn
    \/ HandlerFirstForward
    \/ HandlerFirstTop
    \/ HandlerSecondForward
    \/ SendResume

SpecScan == InitScan /\ [][NextScan]_vars

-----------------------------------------------------------------------------
(* Specification of a program that keeps the list get_stack returned        *)

\* snapshot = get_stack(): the script keeps the returned list in a local variable
\* (the stack field of its frame)
ScriptGetStack ==
    /\ Running("script")
    /\ LET w == GetStack(W, Cur, Fresh(stackVar, frames, {}))
           fr == WithOp(CallOp("get_stack", NoEff, TRUE))
       IN  Commit(w.sv, w.hp, [fr EXCEPT ![Len(fr)].stack = w.sv[Cur]])
    /\ ret' = PyNone
    /\ UNCHANGED <<ptrVar, made, entered, pool, trace, open, captured, gen>>

InitSnap == InitWith(SnapHandlers)

NextSnap ==
    \/ \E h \in SnapHandlers : ScriptInstall(h)
    \/ \E h \in SnapHandlers : ScriptRelease(h)
    \/ ScriptGetStack
    \/ \E cls \in {"A", "B"} : ScriptSend(cls, TRUE)
    \/ ScriptResume
    \/ SendMatch
    \/ SendSkip
    \/ SendExhausted
    \/ HandlerReturn

SpecSnap == InitSnap /\ [][NextSnap]_vars

-----------------------------------------------------------------------------
(* Specification of a program that combines guards with util.stack          *)

\* the sequences of guards the program passes to util.stack: distinct guards
UtilArgs ==
    {hs \in [1..1 -> UtilHandlers] \cup [1..2 -> UtilHandlers] \cup [1..3 -> UtilHandlers] :
        Cardinality({hs[i] : i \in 1..Len(hs)}) = Len(hs)}

RECURSIVE CloseAll(_, _)
\* the guards still open after the guards of the sequence tried were exited in turn
CloseAll(o, tried) ==
    IF tried = <<>> THEN o ELSE CloseAll(CloseGuard(o, Head(tried)), Tail(tried))

IsSuffix(hs, s) ==
    /\ Len(hs) <= Len(s)
    /\ SubSeq(s, Len(s) - Len(hs) + 1, Len(s)) = hs

\* with stack(*hs): ...  enters the combined scope
ScriptStackEnter(hs) ==
    /\ Running("script")
    /\ \A i \in 1..Len(hs) : hs[i] \in pool
    /\ Len(StackOf(Cur)) + Len(hs) <= StackLimit
    /\ LET r == EnterAllRun(W, Cur, hs, frames, {}, <<>>)
       IN  /\ Commit(r.w.sv, r.w.hp,
                     WithOp([CallOp("stack_enter", NoEff, TRUE) EXCEPT
                                !.hs = hs, !.tried = r.tried, !.cbs = r.cbs]))
           /\ ret' = r.out
           /\ open' = [open EXCEPT ![Cur] = IF r.out.k = "exc" THEN @ ELSE @ \o hs]
    /\ UNCHANGED <<ptrVar, made, entered, pool, trace, captured, gen>>

\* the end of the block of with stack(*hs): stack.__exit__(None, None, None)
ScriptStackExit(hs) ==
    /\ Running("script")
    /\ IsSuffix(hs, open[Cur])
    /\ LET r == ExitAllRun(W, Cur, hs, frames, {}, <<>>)
       IN  /\ Commit(r.w.sv, r.w.hp,
                     WithOp([CallOp("stack_exit", NoEff, TRUE) EXCEPT
                                !.hs = hs, !.tried = r.tried]))
           /\ ret' = r.out
           /\ open' = [open EXCEPT ![Cur] = CloseAll(@, r.tried)]
    /\ UNCHANGED <<ptrVar, made, entered, pool, trace, captured, gen>>

InitUtil == InitWith(UtilHandlers)

NextUtil ==
    \/ \E h \in UtilHandlers : ScriptInstall(h)
    \/ \E h \in UtilHandlers : ScriptRelease(h)
    \/ \E hs \in UtilArgs : ScriptStackEnter(hs)
    \/ \E hs \in UtilArgs : ScriptStackExit(hs)
    \/ \E cls \in {"A", "B"} : ScriptSend(cls, TRUE)
    \/ ScriptResume
    \/ SendMatch
    \/ SendSkip
    \/ SendExhausted
    \/ HandlerReturn

SpecUtil == InitUtil /\ [][NextUtil]_vars

-----------------------------------------------------------------------------
(* Specification of a program with an on_enter callback that raises         *)

InitAcquire == InitWith(AcquireHandlers)

AcquireArgs == {<<1>>, <<29>>, <<1, 29>>, <<29, 1>>, <<1, 1>>}

NextAcquire ==
    \/ \E h \in AcquireHandlers : ScriptInstall(h)
    \/ \E h \in AcquireHandlers : ScriptRelease(h)
    \/ \E hs \in AcquireArgs : ScriptStackEnter(hs)
    \/ \E hs \in AcquireArgs : ScriptStackExit(hs)
    \/ \E hs \in AcquireArgs, bcc \in BOOLEAN : ScriptBind("b1", hs, bcc)
    \/ \E cls \in {"A", "B"} : ScriptSend(cls, TRUE)
    \/ ScriptResume
    \/ SendMatch
    \/ SendSkip
    \/ SendExhausted
    \/ HandlerReturn
    \/ \E hs \in AcquireArgs, bcc \in BOOLEAN : HandlerBindOnly("b1", hs, bcc)
    \/ HandlerBindEnd

SpecAcquire == InitAcquire /\ [][NextAcquire]_vars

-----------------------------------------------------------------------------
(* Specification of a program that declares handlers for unions of classes  *)
(* and for specializations of a generic class                               *)

InitTyped == InitWith(TypedHandlers)

NextTyped ==
    \/ \E h \in TypedHandlers : ScriptHandler(h)
    \/ \E h \in TypedHandlers : ScriptInstall(h)
    \/ \E h \in TypedHandlers : ScriptRelease(h)
    \/ \E cls \in {"A", "B"} : ScriptSend(cls, TRUE)
    \/ \E arg \in BoxArgs : ScriptSendBox(arg)
    \/ ScriptResume
    \/ SendMatch
    \/ SendSkip
    \/ SendCheckRaises
    \/ SendExhausted
    \/ HandlerReturn

SpecTyped == InitTyped /\ [][NextTyped]_vars

-----------------------------------------------------------------------------
(* Type-argument inference and the matching of specializations,             *)
(* src/src/effects/_typing.py.  Annotations are terms, values carry their    *)
(* type, a generic effect class is its __parameters__ and __annotations__.   *)

\* annotations: a TypeVar, a plain class, typing.Any, and list[..], dict[.., ..], X | Y
TypeVarAnn(n) == [form |-> "typevar", name |-> n, args |-> <<>>]
PlainAnn(c) == [form |-> "class", name |-> c, args |-> <<>>]
AnyAnn == [form |-> "any", name |-> "Any", args |-> <<>>]
ListAnn(a) == [form |-> "list", name |-> "list", args |-> <<a>>]
DictAnn(k, v) == [form |-> "dict", name |-> "dict", args |-> <<k, v>>]
UnionAnn(a, b) == [form |-> "union", name |-> "", args |-> <<a, b>>]

TypeVarNames == {"T", "K", "V"}
ValueTypes == {"int", "bool", "str", "NoneType", "list", "dict"}

\* faulty variant: only the class itself passes
IsSameClass(a, b) == a = b

\* issubclass(a, b) for the builtin classes: bool is a subclass of int
IsSubclass(a, b) == a = b \/ b = "object" \/ (a = "bool" /\ b = "int")

\* values: a scalar of a type, a list of values, a dict of key-value pairs, and the
\* absence of the attribute (hasattr is false)
Scalar(t) == [kind |-> "scalar", t |-> t, items |-> <<>>]
ListValue(items) == [kind |-> "list", t |-> "list", items |-> items]
DictValue(items) == [kind |-> "dict", t |-> "dict", items |-> items]
Missing == [kind |-> "missing", t |-> "", items |-> <<>>]

\* type(value)
TypeOf(value) == value.t

\* class Pair[T](Effect): a: T; b: T          class SubPair(Pair[int])
\* class Opt[T](Effect): a: T | None          class ListEffect[T](Effect): value: list[T]
\* class DictEffect[K, V](Effect): data: dict[K, V]
\* class Tagged[T](Effect): tag: str          class Two[K, V](Effect): a: K; b: list[V]
GenericClasses == {"Pair", "SubPair", "Opt", "ListEffect", "DictEffect", "Tagged", "Two"}

\* effect_cls.__parameters__
TypeParams(c) ==
    CASE c \in {"Pair", "Opt", "ListEffect", "Tagged"} -> <<"T">>
      [] c \in {"DictEffect", "Two"} -> <<"K", "V">>
      [] OTHER -> <<>>

\* effect_cls.__annotations__, in declaration order
Annotations(c) ==
    CASE c = "Pair" -> <<TypeVarAnn("T"), TypeVarAnn("T")>>
      [] c = "Opt" -> <<UnionAnn(TypeVarAnn("T"), PlainAnn("NoneType"))>>
      [] c = "ListEffect" -> <<ListAnn(TypeVarAnn("T"))>>
      [] c = "DictEffect" -> <<DictAnn(TypeVarAnn("K"), TypeVarAnn("V"))>>
      [] c = "Tagged" -> <<PlainAnn("str")>>
      [] c = "Two" -> <<TypeVarAnn("K"), ListAnn(TypeVarAnn("V"))>>
      [] OTHER -> <<>>

\* the classes an instance of c is an instance of
GenericMro(c) == IF c = "SubPair" THEN {"SubPair", "Pair"} ELSE {c}

\* the number of attributes an instance of c has a place for
NFields(c) == IF c = "SubPair" THEN 2 ELSE Len(Annotations(c))

\* faulty variant: the last observation replaces the binding
SetLast(bindings, p, t) == [bindings EXCEPT ![p] = t]

\* bindings.setdefault(p, t)
SetDefault(bindings, p, t) ==
    IF bindings[p] = "" THEN [bindings EXCEPT ![p] = t] ELSE bindings

\* _collect_typevar_bindings, lines 156-248 (the Callable, tuple, set and frozenset
\* cases are not drawn)
RECURSIVE CollectTypevarBindings(_, _, _)
RECURSIVE CollectOptions(_, _, _)
CollectTypevarBindings(annotation, value, bindings) ==
    CASE annotation.form = "typevar" -> SetDefault(bindings, annotation.name, TypeOf(value))
      [] annotation.form = "union" -> CollectOptions(annotation.args, value, bindings)
      [] annotation.form = "list" ->
            IF value.kind # "list" \/ value.items = <<>> THEN bindings
            ELSE CollectTypevarBindings(annotation.args[1], value.items[1], bindings)
      [] annotation.form = "dict" ->
            IF value.kind # "dict" \/ value.items = <<>> THEN bindings
            ELSE CollectTypevarBindings(annotation.args[2], value.items[1][2],
                     CollectTypevarBindings(annotation.args[1], value.items[1][1],
                                            bindings))
      [] OTHER -> bindings

\* lines 162-165: for option in get_args(annotation)
CollectOptions(options, value, bindings) ==
    IF options = <<>> THEN bindings
    ELSE CollectOptions(Tail(options), value,
                        CollectTypevarBindings(Head(options), value, bindings))

\* lines 139-145: for name, annotation in annotations.items(), from field k on
RECURSIVE CollectFields(_, _, _, _)
CollectFields(effect, effect_cls, k, bindings) ==
    IF k > Len(Annotations(effect_cls)) THEN bindings
    ELSE CollectFields(effect, effect_cls, k + 1,
             IF effect.vals[k] = Missing THEN bindings
             ELSE CollectTypevarBindings(Annotations(effect_cls)[k], effect.vals[k],
                                         bindings))

NoBindings == [p \in TypeVarNames |-> ""]

\* infer_effect_type_args_from_instance, lines 126-153: None, or Some(tuple)
InferEffectTypeArgsFromInstance(effect, effect_cls, expected_len) ==
    LET params == TypeParams(effect_cls)
        bindings == CollectFields(effect, effect_cls, 1, NoBindings)
        n == IF expected_len < Len(params) THEN expected_len ELSE Len(params)
        resolved == [i \in 1..n |-> bindings[params[i]]]
    IN  IF params = <<>> THEN None
        ELSE IF \E i \in 1..n : resolved[i] = "" THEN None
        ELSE Some(resolved)

\* infer_effect_type_args, lines 97-123
InferEffectTypeArgs(effect, effect_cls, expected_len) ==
    IF expected_len = 0 THEN Some(<<>>)
    ELSE IF effect.stored # None /\ Len(effect.stored[1]) = expected_len
         THEN effect.stored
    ELSE InferEffectTypeArgsFromInstance(effect, effect_cls, expected_len)

\* _annotation_contains_typevar, lines 262-271
RECURSIVE AnnotationContainsTypevar(_)
AnnotationContainsTypevar(annotation) ==
    \/ annotation.form = "typevar"
    \/ \E i \in 1..Len(annotation.args) : AnnotationContainsTypevar(annotation.args[i])

\* _class_has_typevar_annotations, lines 257-259
ClassHasTypevarAnnotations(effect_cls) ==
    \E k \in 1..Len(Annotations(effect_cls)) :
        AnnotationContainsTypevar(Annotations(effect_cls)[k])

\* _type_arg_matches, lines 274-293
RECURSIVE TypeArgMatches(_, _)
TypeArgMatches(expected, actual) ==
    CASE expected.form = "any" -> TRUE
      [] expected.form = "union" ->
            \E i \in 1..Len(expected.args) : TypeArgMatches(expected.args[i], actual)
      [] expected.form = "typevar" -> TRUE
      [] expected.form = "class" -> IsSubclass(actual, expected.name)
      [] OTHER -> FALSE

\* a specialization Cls[args], or the bare class with args = <<>>
Specialization(c, args) == [cls |-> c, args |-> args]

\* annotation_matches_effect, lines 48-66
AnnotationMatchesEffect(effect, annotation) ==
    LET effect_cls == annotation.cls
        expected_args == annotation.args
        inferred == InferEffectTypeArgs(effect, effect_cls, Len(expected_args))
    IN  IF effect_cls \notin GenericMro(effect.cls) THEN FALSE
        ELSE IF expected_args = <<>> THEN TRUE
        ELSE IF inferred = None THEN ~ClassHasTypevarAnnotations(effect_cls)
        ELSE \A i \in 1..Len(expected_args) : TypeArgMatches(expected_args[i],
                                                              inferred[1][i])

-----------------------------------------------------------------------------
(* Specification of a program that infers the type arguments of one effect  *)
(* instance and tests it against specializations                            *)

\* the field values the instances are built from
FieldValues ==
    {Scalar("int"), Scalar("bool"), Scalar("str"), Scalar("NoneType"),
     ListValue(<<>>), ListValue(<<Scalar("int")>>),
     ListValue(<<Scalar("str"), Scalar("int")>>),
     DictValue(<<>>), DictValue(<<<<Scalar("str"), Scalar("int")>>>>),
     Missing}

\* the cached __effect_type_args__ an instance may carry
StoredArgs(c) == IF c = "ListEffect" THEN {None, Some(<<"int">>)} ELSE {None}

EffectInstances ==
    UNION {{[cls |-> c, vals |-> v, stored |-> s] :
                v \in [1..NFields(c) -> FieldValues], s \in StoredArgs(c)} :
           c \in GenericClasses}

\* the type arguments the specializations declare
DeclaredArgs ==
    {AnyAnn, TypeVarAnn("T"), PlainAnn("int"), PlainAnn("bool"), PlainAnn("str"),
     PlainAnn("object"), UnionAnn(PlainAnn("int"), PlainAnn("str"))}

Specializations ==
    UNION {{Specialization(c, args) :
                args \in {<<>>} \cup [1..Len(TypeParams(c)) -> DeclaredArgs]} :
           c \in GenericClasses}

InitTypes ==
    \E effect \in EffectInstances :
        /\ stackVar = [c \in Contexts |-> 0]
        /\ ptrVar = [c \in Contexts |-> None]
        /\ heap = EmptyHeap
        /\ frames = <<[Frame("script", "main") EXCEPT !.eff = effect]>>
        /\ ret = NoRet
        /\ made = [c \in BoundCtx \cup ThreadCtx |-> "no"]
        /\ entered = AllFalse
        /\ pool = {}
        /\ trace = <<>>
        /\ open = [c \in Contexts |-> <<>>]
        /\ captured = [c \in Contexts |-> <<>>]
        /\ gen = NoGen
        /\ parked = NoThread

\* the script calls infer_effect_type_args_from_instance for its effect, as line 61
\* does for a specialization of a class of the effect
ScriptInfer(annotation) ==
    /\ Running("script")
    /\ annotation.args # <<>>
    /\ annotation.cls \in GenericMro(Top.eff.cls)
    /\ frames' = WithOp([NoOp EXCEPT !.name = "infer", !.ann = annotation])
    /\ ret' = Val(InferEffectTypeArgsFromInstance(Top.eff, annotation.cls,
                                                   Len(annotation.args)))
    /\ UNCHANGED <<stackVar, ptrVar, heap, made, entered, pool, trace, open,
                   captured, gen, parked>>

\* the script calls annotation_matches_effect for its effect
ScriptMatches(annotation) ==
    /\ Running("script")
    /\ frames' = WithOp([NoOp EXCEPT !.name = "matches", !.ann = annotation])
    /\ ret' = Val(AnnotationMatchesEffect(Top.eff, annotation))
    /\ UNCHANGED <<stackVar, ptrVar, heap, made, entered, pool, trace, open,
                   captured, gen, parked>>

NextTypes ==
    \/ \E annotation \in Specializations : ScriptInfer(annotation)
    \/ \E annotation \in Specializations : ScriptMatches(annotation)

SpecTypes == InitTypes /\ [][NextTypes]_vars

-----------------------------------------------------------------------------
(* Vocabulary of the properties.  These definitions state what the          *)
(* documentation promises and do not use the operators that model the code. *)

\* the handler object h is registered for a class the effect e is an instance of
Accepts(h, e) == HType(h) \in Mro(e.cls)

\* the indices of the sequence s whose entries accept e
MatchIdx(s, e) == {i \in 0..(Len(s) - 1) : Accepts(ListGet(s, i), e)}

Highest(S) == CHOOSE i \in S : \A j \in S : j <= i

\* the script on top of the call stack has just got the outcome (ret) of the call
\* named name
DoneOp(name) == Returned("script") /\ Top.op.name = name

\* the handler invocations made for the call the top script is making or has just made
OpTrace == SelectSeq(trace, LAMBDA t : t.d > Len(frames))

\* the callables that return or raise without sending anything themselves
Plain == {"ret", "barrier", "raise"}

AnyOf(cls) == [id |-> 0, cls |-> cls, arg |-> ""]


-----------------------------------------------------------------------------
(* Properties *)

\* C1: a send with interpret_final=true invokes exactly one handler callable itself,
\* the entry with the highest index of the caller's stack that accepts the effect; it
\* passes it the effect and returns what the callable returns; when that callable
\* sends nothing itself, no other entry is invoked at all.
C1_SendInvokesTopmostMatch ==
    (DoneOp("send") /\ Top.op.final /\ MatchIdx(Top.op.stack0, Top.op.eff) # {}) =>
        LET s == Top.op.stack0
            e == Top.op.eff
            i == Highest(MatchIdx(s, e))
            h == ListGet(s, i)
            direct == SelectSeq(trace, LAMBDA t : t.d = Len(frames) + 1)
        IN  /\ Len(direct) = 1
            /\ OpTrace # <<>>
            /\ OpTrace[1] = direct[1]
            /\ direct[1].h = h
            /\ direct[1].idx = i
            /\ direct[1].eff = e
            /\ ret = direct[1].res
            /\ (HKind(h) = "ret" => ret = Val(h))
            /\ (HKind(h) \in Plain => Len(OpTrace) = 1)

\* C1 witness: a send answered with a value by a handler that is neither the top
\* entry nor the only entry accepting the effect
C1_Witness ==
    /\ DoneOp("send")
    /\ Top.op.final
    /\ ret.k = "val"
    /\ MatchIdx(Top.op.stack0, Top.op.eff) # {}
    /\ Highest(MatchIdx(Top.op.stack0, Top.op.eff)) < Len(Top.op.stack0) - 1
    /\ Cardinality(MatchIdx(Top.op.stack0, Top.op.eff)) >= 2

\* C2: when guards accepting the sent effect are open in the context, the send is
\* answered by the one entered most recently; and when the entry that answers a class
\* is released, the entry that was installed before it for that class is the one that
\* answers again.
C2_MostRecentAnswers ==
    /\ (DoneOp("send") /\ MatchIdx(open[Cur], Top.op.eff) # {}) =>
          LET h == ListGet(open[Cur], Highest(MatchIdx(open[Cur], Top.op.eff)))
          IN  /\ OpTrace # <<>>
              /\ OpTrace[1].h = h
              /\ (HKind(h) = "ret" => ret = Val(h))
    /\ DoneOp("release") =>
          \A cls \in Classes :
              LET m0 == MatchIdx(Top.op.stack0, AnyOf(cls))
                  m1 == MatchIdx(StackOf(Cur), AnyOf(cls))
              IN  (/\ Cardinality(m0) >= 2
                   /\ ListGet(Top.op.stack0, Highest(m0)) = Top.op.h)
                  => /\ m1 # {}
                     /\ Highest(m1) = Highest(m0 \ {Highest(m0)})
                     /\ ListGet(StackOf(Cur), Highest(m1))
                            = ListGet(Top.op.stack0, Highest(m1))

\* C2 witness: the most recently installed of two handlers for class A has just been
\* released, and the one installed before it is a different object
C2_Witness ==
    /\ DoneOp("release")
    /\ LET m0 == MatchIdx(Top.op.stack0, AnyOf("A"))
       IN  /\ Cardinality(m0) >= 2
           /\ ListGet(Top.op.stack0, Highest(m0)) = Top.op.h
           /\ HType(Top.op.h) = "A"
           /\ ListGet(Top.op.stack0, Highest(m0 \ {Highest(m0)})) # Top.op.h
           /\ HType(ListGet(Top.op.stack0, Highest(m0 \ {Highest(m0)}))) = "A"

\* C3: at every point the length of a context's stack is its length before the first
\* guard was entered plus the number of guards open; entering a guard makes it one
\* longer and exiting the innermost guard one shorter.
C3_StackLength ==
    /\ \A c \in Contexts \ BoundCtx : Len(StackOf(c)) = Len(open[c])
    /\ DoneOp("install") => Len(StackOf(Cur)) = Len(Top.op.stack0) + 1
    /\ (/\ DoneOp("release")
        /\ Top.op.stack0 # <<>>
        /\ Top.op.stack0[Len(Top.op.stack0)] = Top.op.h)
       => Len(StackOf(Cur)) = Len(Top.op.stack0) - 1

\* C3 witness: the innermost of three open guards has just been exited
C3_Witness ==
    /\ DoneOp("release")
    /\ Len(Top.op.stack0) = 3
    /\ Top.op.stack0[3] = Top.op.h
    /\ Len(open[Cur]) = 2

\* a send frame issued with interpret_final=False by the callable of the send frame
\* directly below it
Forwarded(k) ==
    /\ k > 1
    /\ frames[k].kind = "send"
    /\ ~frames[k].final
    /\ frames[k - 1].kind = "send"

\* C4: a send with interpret_final=false issued from inside a handler matched at index
\* i only considers indices strictly below i.
C4_ForwardSearchesBelow ==
    \A k \in 1..Len(frames) :
        Forwarded(k) =>
            /\ frames[k].ptr < frames[k - 1].idx
            /\ (frames[k].pc # "scan" => frames[k].idx < frames[k - 1].idx)

\* C4 witness: a forwarded send has matched an entry below the handler that forwarded,
\* which itself was not the top entry
C4_Witness ==
    \E k \in 1..Len(frames) :
        /\ Forwarded(k)
        /\ frames[k].pc = "call"
        /\ frames[k - 1].idx < Len(heap[frames[k - 1].stack]) - 1

SendInFlight(c) == \E k \in 1..Len(frames) : frames[k].kind = "send" /\ frames[k].ctx = c

\* C5: every send leaves the resolution pointer of its context as it found it,
\* whatever its outcome: the caller finds the value it had stored before the call,
\* and the pointer is absent in a context where no send is in flight.
C5_PointerRestored ==
    /\ \A c \in Contexts : ~SendInFlight(c) => ptrVar[c] = None
    /\ (DoneOp("send") \/ DoneOp("safe_send")) => ptrVar[Cur] = Top.op.ptr0
    /\ (Returned("send") /\ Top.pc = "wait") => ptrVar[Cur] = Some(Top.ptr)

\* C5 witness: a send issued by a handler matched at index 2 has raised a handler's own
\* exception, and the handler finds the pointer at 1 again
C5_Witness ==
    /\ Returned("send")
    /\ Top.pc = "wait"
    /\ Top.idx = 2
    /\ ret.k = "exc"
    /\ ret.t = "ValueError"

\* C6: when no entry of the stack accepts the effect, send raises NoHandlerError
\* carrying the instance that was sent and no callable has been invoked; the same when
\* the only callable invoked forwards the instance and no entry below it accepts it.
C6_NoHandlerError ==
    DoneOp("send") =>
        LET s == Top.op.stack0
            e == Top.op.eff
            m == MatchIdx(s, e)
        IN  /\ m = {} => (ret = Exc("NoHandlerError", e.id) /\ OpTrace = <<>>)
            /\ (/\ Cardinality(m) = 1
                /\ HKind(ListGet(s, Highest(m))) = "fwd")
               => (ret = Exc("NoHandlerError", e.id) /\ Len(OpTrace) = 1)

\* C6 witness: a send on a stack of two entries, none accepting the effect, has raised
C6_Witness ==
    /\ DoneOp("send")
    /\ Len(Top.op.stack0) = 2
    /\ MatchIdx(Top.op.stack0, Top.op.eff) = {}
    /\ ret.k = "exc"

\* C7: safe_send returns the handler's result when a handler answers; the default when
\* the NoHandlerError that reaches it carries the effect it was given; and the
\* NoHandlerError itself when that carries another instance.
C7_SafeSend ==
    DoneOp("safe_send") =>
        LET s == Top.op.stack0
            e == Top.op.eff
            m == MatchIdx(s, e)
            raw == Top.op.raw
        IN  /\ raw.k = "val" => ret = raw
            /\ (raw.k = "exc" /\ raw.t = "NoHandlerError" /\ raw.x = e.id)
                   => ret = DefaultValue
            /\ (raw.k = "exc" /\ raw.t = "NoHandlerError" /\ raw.x # e.id) => ret = raw
            /\ m = {} => ret = DefaultValue
            /\ (m # {} /\ HKind(ListGet(s, Highest(m))) = "ret")
                   => ret = Val(ListGet(s, Highest(m)))
            /\ (/\ m # {}
                /\ HKind(ListGet(s, Highest(m))) = "sendB"
                /\ MatchIdx(s, AnyOf("B")) = {})
               => (ret.k = "exc" /\ ret.t = "NoHandlerError" /\ ret.x # e.id)

\* C7 witness: safe_send re-raises the NoHandlerError of an effect that the handler
\* answering its own effect sent and nobody accepted
C7_Witness ==
    /\ DoneOp("safe_send")
    /\ MatchIdx(Top.op.stack0, Top.op.eff) # {}
    /\ ret.k = "exc"
    /\ ret.t = "NoHandlerError"
    /\ ret.x # Top.op.eff.id

InvokerUntouched ==
    \A k \in 1..Len(frames) :
        (frames[k].kind = "script" /\ frames[k].op.name = "invoke")
        => /\ StackOf(frames[k].ctx) = frames[k].op.stack0
           /\ ptrVar[frames[k].ctx] = frames[k].op.ptr0
           /\ k < Len(frames) => frames[k + 1].ctx \in BoundCtx

\* the callable a send inside a bound callable is invoking belongs to a guard that the
\* binding captured or that was entered inside the bound context
BoundAnswers ==
    \A k \in 1..Len(frames) :
        (frames[k].kind = "send" /\ frames[k].ctx \in BoundCtx /\ frames[k].pc = "call")
        => \/ Present(captured[frames[k].ctx], frames[k].h)
           \/ Present(open[frames[k].ctx], frames[k].h)

\* a step that leaves the stack and the pointer of every context but the running one
OthersUnchanged ==
    \A c \in Contexts \ {Cur} : StackOf(c)' = StackOf(c) /\ ptrVar'[c] = ptrVar[c]

\* C9: while a bound callable runs, no step changes the stack or the pointer of another
\* context; the sends inside it are answered only by entries that the binding captured
\* or that were entered inside it; and during and after the run the stack and the
\* pointer of the invoking context are the ones from before the invocation.
C9_BoundRunIsolated ==
    /\ []InvokerUntouched
    /\ []BoundAnswers
    /\ [][(Cur \in BoundCtx) => OthersUnchanged]_vars

\* C9 witness: the bound callable has returned the answer of the captured handler 8 to
\* an A1 it sent, although handler 1, which also accepts A1 and was not captured, is
\* live in the invoking context, which still has exactly the stack it had
C9_Witness ==
    /\ DoneOp("invoke")
    /\ ret = HandlerValue(8)
    /\ Top.op.stack0 = <<1>>
    /\ StackOf(Cur) = <<1>>
    /\ captured["b1"] = <<8>>

\* the stack of the context of the top frame is the one its binding captured
StartsFromCaptured == StackOf(Cur) = captured[Cur]

\* C10: every invocation of a bound callable starts from the stack the binding
\* captured, whatever earlier invocations installed and did not release.
C10_InvocationsIndependent ==
    [][(Len(frames') = Len(frames) + 1 /\ Top'.kind = "script")
       => StartsFromCaptured']_vars

\* a send in a bound context whose stack is still the captured one is at the call of
\* the callable of the topmost captured entry accepting the effect
CapturedTopAnswers ==
    \A k \in 1..Len(frames) :
        (/\ frames[k].kind = "send"
         /\ frames[k].ctx \in BoundCtx
         /\ frames[k].pc = "call"
         /\ frames[k].final
         /\ StackOf(frames[k].ctx) = captured[frames[k].ctx])
        => /\ MatchIdx(captured[frames[k].ctx], frames[k].eff) # {}
           /\ frames[k].idx = Highest(MatchIdx(captured[frames[k].ctx], frames[k].eff))
           /\ frames[k].h = ListGet(captured[frames[k].ctx], frames[k].idx)

\* C11: when bind(computation, *hs) without bind_current_context has returned, the
\* stack of the bound context is exactly hs, in argument order from bottom to top,
\* whatever the calling context has installed; a send inside the bound callable that
\* finds this stack is answered by the last passed entry accepting the effect.
C11_BindExactlyPassed ==
    /\ (DoneOp("bind") /\ ~Top.op.bcc)
       => \A b \in BoundCtx :
            (made[b] # "no" /\ ~entered[b])
            => StackOf(b) = Top.op.hs /\ captured[b] = Top.op.hs
    /\ CapturedTopAnswers

\* C11 witness: the handlers 1 and 8 are installed in the calling context in the order
\* 1, 8 and were passed to bind in the order 8, 1; an A1 sent inside the bound callable
\* is being answered by 1, the last one passed (8 would answer in the calling context)
C11_Witness ==
    /\ Top.kind = "send"
    /\ Top.ctx = "b1"
    /\ Top.pc = "call"
    /\ Top.eff.cls = "A1"
    /\ Top.h = 1
    /\ made["b1"] = "passed"
    /\ captured["b1"] = <<8, 1>>
    /\ StackOf("b1") = <<8, 1>>
    /\ StackOf("main") = <<1, 8>>

\* a step of a context that bind did not produce leaves the stack and the pointer of
\* every bound context that exists as they are
BoundUntouched ==
    \A b \in BoundCtx :
        made[b] # "no" => StackOf(b)' = StackOf(b) /\ ptrVar'[b] = ptrVar[b]

\* C12: when bind(..., bind_current_context=True) has returned, the stack of the bound
\* context is the stack the calling context had at the call followed by the passed
\* guards; and no later step of the calling context (install, release, send) changes
\* the stack or the pointer of the bound context, which is all a send inside reads.
C12_BoundStackFixed ==
    /\ [](DoneOp("bind") /\ Top.op.bcc
           => captured["b1"] = Top.op.stack0 \o Top.op.hs
              /\ StackOf("b1") = Top.op.stack0 \o Top.op.hs
              /\ StackOf(Cur) = Top.op.stack0)
    /\ [][(Cur \notin BoundCtx) => BoundUntouched]_vars

\* C12 witness: handler 1 was live in the calling context at a bind with
\* bind_current_context=True that passed handler 8, and has been released there since;
\* an A sent inside the bound callable is still being answered by 1
C12_Witness ==
    /\ Top.kind = "send"
    /\ Top.ctx = "b1"
    /\ Top.pc = "call"
    /\ Top.eff.cls = "A"
    /\ Top.h = 1
    /\ made["b1"] = "current"
    /\ captured["b1"] = <<1, 8>>
    /\ StackOf("main") = <<>>

\* what the caller of next has got is what the underlying generator has just yielded,
\* or StopIteration with the value it returned, or the exception that left it
NextPassesOn ==
    DoneOp("next")
    => ret = (CASE gen.st = "suspended" -> gen.last
                [] gen.st = "done" /\ gen.last.k = "exc" -> gen.last
                [] gen.st = "done" /\ gen.last.k # "exc" ->
                       [k |-> "exc", x |-> gen.last.x, t |-> "StopIteration"]
                [] OTHER -> NoRet)

\* C13: every step of a bound generator runs in the captured context: while the
\* generator runs, every frame above the one that drives it belongs to the bound
\* context; a send in a step is answered by an entry that was captured or entered
\* inside, whatever the driving context has installed; and each next() gives its
\* caller what the underlying generator yielded, returned or raised.
C13_GeneratorStepsBound ==
    /\ gen.st \in {"running", "resumed"}
       => \A k \in 2..Len(frames) : frames[k].ctx \in BoundCtx /\ entered[frames[k].ctx]
    /\ BoundAnswers
    /\ NextPassesOn

\* C13 witness: in a step after the first, an A1 sent by the generator is being
\* answered by the bound handler 8, while the driving context has since installed
\* handler 1, which accepts A1 too
C13_Witness ==
    /\ gen.st = "resumed"
    /\ Top.kind = "send"
    /\ Top.ctx = "b1"
    /\ Top.pc = "call"
    /\ Top.eff.cls = "A1"
    /\ Top.h = 8
    /\ captured["b1"] = <<8>>
    /\ StackOf("main") = <<1>>

\* the frames of both threads
AllFrames == frames \o parked.frames

\* the contexts in use that started with an empty stack
StartedEmpty(c) == c = "main" \/ (c \in ThreadCtx /\ made[c] = "empty")

\* every handler callable that a send of a thread is calling belongs to a guard that
\* this thread has entered and not exited
OwnHandlerAnswers ==
    \A k \in 1..Len(AllFrames) :
        (/\ AllFrames[k].kind = "send"
         /\ AllFrames[k].pc = "call"
         /\ StartedEmpty(AllFrames[k].ctx))
        => /\ Present(open[AllFrames[k].ctx], AllFrames[k].h)
           /\ AllFrames[k].h = ListGet(StackOf(AllFrames[k].ctx), AllFrames[k].idx)

\* a step leaves the stack and the pointer of every context in use, other than the one
\* of the thread that takes it, as they are
ThreadsApart ==
    \A c \in Contexts \ {Cur} :
        (c = "main" \/ made[c] # "no")
        => StackOf(c)' = StackOf(c) /\ ptrVar'[c] = ptrVar[c]

\* C14: in every interleaving of two threads that install handlers for the same
\* effect class and send effects of it, each send is answered by a handler that the
\* sending thread has installed; and no step of a thread changes the stack or the
\* resolution pointer of the other thread.
C14_ThreadsIsolated ==
    /\ []OwnHandlerAnswers
    /\ [][ThreadsApart]_vars

\* C14 witness: both threads are inside a send of an A at the same time, the started
\* thread being answered by its handler 9 and the main thread by its handler 1
C14_Witness ==
    /\ made["t1"] = "empty"
    /\ Top.kind = "send" /\ Top.ctx = "t1" /\ Top.pc = "call" /\ Top.h = 9
    /\ Top.eff.cls = "A"
    /\ Len(parked.frames) = 2
    /\ parked.frames[2].kind = "send" /\ parked.frames[2].pc = "call"
    /\ parked.frames[2].h = 1
    /\ parked.frames[2].eff.cls = "A"

\* the step that starts a child with a copy of the context of the main program gives
\* the child and its sibling the parent's entries, and leaves the parent's
SeedIsCopy ==
    (made["t1"] = "no" /\ made'["t1"] = "copied")
    => /\ StackOf("t1")' = StackOf("main")
       /\ StackOf("t2")' = StackOf("main")
       /\ StackOf("main")' = StackOf("main")

\* C15: a child context starts with the parent's sequence of entries; from then on
\* the installs and releases of the child change neither the parent's stack nor a
\* sibling's, and those of the parent change neither child's stack.
C15_ChildContextCopy ==
    /\ [][SeedIsCopy]_vars
    /\ [](made["t2"] = "copied" => StackOf("t2") = captured["t2"])
    /\ [][(made["t1"] = "copied") => ThreadsApart]_vars

\* C15 witness: the child started with a copy holding handler 1, has released it and
\* has just installed handler 9; the parent and the sibling still hold handler 1
C15_Witness ==
    /\ made["t1"] = "copied"
    /\ captured["t1"] = <<1>>
    /\ Cur = "t1"
    /\ DoneOp("install")
    /\ StackOf("t1") = <<9>>
    /\ StackOf("main") = <<1>>
    /\ StackOf("t2") = <<1>>

\* C16: the release of a guard that is not on the stack of the calling context (the
\* stack may be empty) returns normally, emits a warning, leaves the stack as it was
\* and does not call on_exit.
C16_ReleaseAbsentWarns ==
    (DoneOp("release") /\ ~Present(Top.op.stack0, Top.op.h))
    => /\ ret = PyNone
       /\ Top.op.warn # ""
       /\ ~Top.op.cb
       /\ StackOf(Cur) = Top.op.stack0

\* C16 witness: handler 1 has just been released on a stack that holds other entries
\* and not handler 1
C16_Witness ==
    /\ DoneOp("release")
    /\ Top.op.h = 1
    /\ Len(Top.op.stack0) = 2
    /\ ~Present(Top.op.stack0, 1)
    /\ Top.op.warn = "not found on stack during exit"

\* C17: when the body of a guard's scope raises (a NoHandlerError or the exception of a
\* handler callable, raised through send), the guard's entry is removed, the stack is
\* what it was before the guard was entered, and the same exception propagates.
C17_GuardExitsOnRaise ==
    DoneOp("unwind")
    => /\ ret = Top.op.raw
       /\ ret.k = "exc"
       /\ Top.op.stack0 # <<>>
       /\ Top.op.stack0[Len(Top.op.stack0)] = Top.op.h
       /\ StackOf(Cur) = SubSeq(Top.op.stack0, 1, Len(Top.op.stack0) - 1)
       /\ StackOf(Cur) = open[Cur]
       /\ Top.op.warn = ""

\* C17 witness: a NoHandlerError has just left the scope of the inner of two guards
C17_Witness ==
    /\ DoneOp("unwind")
    /\ ret.t = "NoHandlerError"
    /\ Len(Top.op.stack0) = 2
    /\ Len(StackOf(Cur)) = 1

\* c is d or is derived from d through one or more class statements
RECURSIVE SubclassOrSame(_, _)
SubclassOrSame(c, d) ==
    \/ c = d
    \/ c # "Effect" /\ SubclassOrSame(Parent(c), d)

\* the indices of the sequence s whose entries are registered for the class of e or
\* for a class it derives from
RelatedIdx(s, e) ==
    {i \in 0..(Len(s) - 1) : SubclassOrSame(e.cls, HType(ListGet(s, i)))}

\* C18: an entry registered for class C matches an effect exactly when the effect's
\* class is C or a subclass of C: no callable is ever invoked for an effect of an
\* unrelated class, and a send from the top reaches the topmost entry whose class
\* is the effect's class or an ancestor of it (the Effect base included), failing
\* with NoHandlerError when there is none.
C18_SubclassMatching ==
    /\ \A k \in 1..Len(trace) : SubclassOrSame(trace[k].eff.cls, HType(trace[k].h))
    /\ (DoneOp("send") /\ Top.op.final) =>
          LET S == RelatedIdx(Top.op.stack0, Top.op.eff)
          IN  IF S = {}
              THEN OpTrace = <<>> /\ ret = NoHandlerError(Top.op.eff)
              ELSE /\ OpTrace # <<>>
                   /\ OpTrace[1].idx = Highest(S)
                   /\ OpTrace[1].eff = Top.op.eff

\* C18 witness: a send of an A1 instance has been answered by an entry registered for
\* A that sits above an entry registered for B and below nothing
C18_Witness ==
    /\ DoneOp("send")
    /\ Top.op.final
    /\ Top.op.eff.cls = "A1"
    /\ Top.op.stack0 = <<6, 4, 1>>
    /\ OpTrace # <<>>
    /\ OpTrace[1].h = 1
    /\ ret = Val(1)

\* the declaration of the handler object h names the class of e, or a class it derives
\* from, as its class or as a member of its union
DeclaredFor(h, e) ==
    LET a == Decl(h).ann
    IN  IF a.form = "union" THEN \E m \in a.members : SubclassOrSame(e.cls, m)
        ELSE SubclassOrSame(e.cls, a.cls)

\* the indices of the sequence s whose entries are declared for e
DeclaredIdx(s, e) == {i \in 0..(Len(s) - 1) : DeclaredFor(ListGet(s, i), e)}

\* every entry of the sequence s is declared with a class or with a union of classes
NoAlias(s) == \A i \in 1..Len(s) : Decl(s[i]).ann.form # "alias"

\* C19: a handler declared for a union of effect classes (A | B) can be registered; it
\* answers a send of an instance of each member class and of no other class, and an
\* entry for one member installed above it answers that member only.
C19_UnionHandlers ==
    /\ (DoneOp("handler") /\ Decl(Top.op.h).ann.form = "union") => ret = Val(Top.op.h)
    /\ (DoneOp("send") /\ NoAlias(Top.op.stack0)) =>
          LET S == DeclaredIdx(Top.op.stack0, Top.op.eff)
          IN  IF S = {}
              THEN OpTrace = <<>> /\ ret = NoHandlerError(Top.op.eff)
              ELSE /\ OpTrace # <<>>
                   /\ OpTrace[1].idx = Highest(S)
                   /\ ret = Val(ListGet(Top.op.stack0, Highest(S)))

\* the payload type of the effect e is the type argument the handler object h is
\* declared with
SpecializedFor(h, e) ==
    /\ Decl(h).ann.form = "alias"
    /\ Decl(h).ann.cls = e.cls
    /\ Decl(h).ann.arg = e.arg

\* C20: with handlers registered for Box[int] and for Box[str], a send of a Box is
\* answered by the handler whose type argument is the type of the instance's
\* payload, and fails with NoHandlerError when neither type argument is.
C20_SpecializationRouting ==
    (/\ DoneOp("send")
     /\ Top.op.eff.cls = "Box"
     /\ Top.op.stack0 \in {<<13, 14>>, <<14, 13>>})
    => IF \E i \in 1..2 : SpecializedFor(Top.op.stack0[i], Top.op.eff)
       THEN /\ OpTrace # <<>>
            /\ SpecializedFor(OpTrace[1].h, Top.op.eff)
            /\ ret = Val(OpTrace[1].h)
       ELSE ret = NoHandlerError(Top.op.eff)

\* the declaration d names a type that is not derived from Effect, alone or as a
\* member of its union
NamesNonEffect(d) ==
    IF d.ann.form = "union" THEN \E m \in d.ann.members : "Effect" \notin Mro(m)
    ELSE "Effect" \notin Mro(d.ann.cls)

\* C21: a declaration (explicit or inferred, alone or in a union) that names a type
\* not derived from Effect is rejected with an error by the handler() call, so that
\* no entry with such a declaration is ever on a stack.
C21_NonEffectRejected ==
    /\ (DoneOp("handler") /\ NamesNonEffect(Decl(Top.op.h))) => ret.k = "exc"
    /\ \A c \in Contexts : \A i \in 1..Len(StackOf(c)) :
           ~NamesNonEffect(Decl(StackOf(c)[i]))

Reverse(s) == [i \in 1..Len(s) |-> s[Len(s) + 1 - i]]

\* the guards of the sequence hs whose __exit__ raises when called on a stack that
\* holds them
FailingExits(hs) == SelectSeq(hs, LAMBDA h : HOnExit(h) = "raise")

\* C22: util.stack enters its members in the given order and releases them in
\* reverse order; when the release of a member fails, the first such failure
\* propagates and the releases of the remaining members are still attempted.
C22_StackCombinator ==
    /\ DoneOp("stack_enter") => StackOf(Cur) = Top.op.stack0 \o Top.op.hs
    /\ DoneOp("stack_exit") =>
          /\ Top.op.tried = Reverse(Top.op.hs)
          /\ StackOf(Cur) = SubSeq(Top.op.stack0, 1, Len(Top.op.stack0) - Len(Top.op.hs))
          /\ IF FailingExits(Top.op.hs) = <<>> THEN ret.k = "val"
             ELSE ret = Exc("CallbackError", Head(FailingExits(Reverse(Top.op.hs))))

\* a callable that raises an exception of its own has been invoked for the call the
\* top script has just made
HandlerRaised == \E k \in 1..Len(OpTrace) : HKind(OpTrace[k].h) = "raise"

\* C23: the exception a handler callable raises from its own logic reaches the caller
\* of send and of safe_send as that exception (safe_send does not replace it by the
\* default value), and the stack is what it was before the send.
C23_HandlerErrorPropagates ==
    ((DoneOp("send") \/ DoneOp("safe_send")) /\ HandlerRaised)
    => /\ ret = Exc("ValueError", 0)
       /\ OpTrace[Len(OpTrace)].res = ret
       /\ StackOf(Cur) = Top.op.stack0
       /\ (DoneOp("safe_send") => Top.op.raw = ret)

\* C23 witness: a safe_send of an A has reached the caller with the ValueError of the
\* callable of entry 7, which was invoked for the B that the callable of entry 5 sent
C23_Witness ==
    /\ DoneOp("safe_send")
    /\ Top.op.eff.cls = "A"
    /\ Len(OpTrace) = 2
    /\ OpTrace[1].h = 5
    /\ OpTrace[2].h = 7
    /\ ret = Exc("ValueError", 0)

\* the main script holds a list that get_stack returned
HoldsSnapshot == frames[1].stack # 0

\* the contents of the list the main script holds
Snapshot == IF HoldsSnapshot THEN heap[frames[1].stack] ELSE <<>>

\* the top script has just called get_stack
GetStackDone == DoneOp("get_stack")

\* C24: the list get_stack returns holds the entries of the context from the first
\* installed to the most recent; installs and releases made afterwards do not change
\* a list returned earlier, and a new get_stack call returns the changed stack.
C24_GetStackSnapshot ==
    /\ [](GetStackDone => (Snapshot = StackOf(Cur) /\ Snapshot = open[Cur]))
    /\ [][(HoldsSnapshot /\ ~GetStackDone') => (Snapshot' = Snapshot)]_vars

\* C24 witness: the script holds the list get_stack returned when one guard was open;
\* two more installs and a release later, the list is unchanged and the stack has two
\* entries
C24_Witness ==
    /\ HoldsSnapshot
    /\ Snapshot = <<23>>
    /\ StackOf("main") = <<23, 24>>
    /\ Top.op.name = "release"
    /\ Top.op.stack0 = <<23, 24, 23>>

\* C25: on_enter is called once per acquisition, when the entry is on the stack;
\* on_exit is called once per release of an entry that was on the stack, when the
\* entry has been removed, with the error information of the exit (none on a normal
\* exit, the exception on a failing one); send and safe_send call neither.
C25_LifecycleCallbacks ==
    /\ DoneOp("install") =>
          IF HOnEnter(Top.op.h) = "none" THEN Top.op.cbs = <<>>
          ELSE /\ Len(Top.op.cbs) = 1
               /\ Top.op.cbs[1].cb = "on_enter"
               /\ Top.op.cbs[1].h = Top.op.h
               /\ Top.op.cbs[1].seen = Append(Top.op.stack0, Top.op.h)
    /\ (DoneOp("release") \/ DoneOp("unwind")) =>
          IF HOnExit(Top.op.h) = "none" \/ ~Present(Top.op.stack0, Top.op.h)
          THEN Top.op.cbs = <<>>
          ELSE /\ Len(Top.op.cbs) = 1
               /\ Top.op.cbs[1].cb = "on_exit"
               /\ Top.op.cbs[1].h = Top.op.h
               /\ Len(Top.op.cbs[1].seen) = Len(Top.op.stack0) - 1
               /\ Top.op.cbs[1].seen = StackOf(Cur)
               /\ Top.op.cbs[1].info = (IF DoneOp("unwind") THEN Top.op.raw ELSE NoRet)
    /\ (DoneOp("send") \/ DoneOp("safe_send")) => Top.op.cbs = <<>>

\* C25 witness: a NoHandlerError has just left the scope of guard 1, whose on_exit
\* was called with it
C25_Witness ==
    /\ DoneOp("unwind")
    /\ Top.op.h = 1
    /\ Len(Top.op.cbs) = 1
    /\ Top.op.cbs[1].info.t = "NoHandlerError"
    /\ Top.op.cbs[1].seen = <<4>>

\* the callable of the entry matched by the send on top of the call stack is at its
\* first statement
CallableStarts == Running("send") /\ Top.pc = "call"

\* C26: when the callable of the entry matched at index i of the searched list starts,
\* the resolution pointer of the context is i - 1, and the matched entry is the one
\* at index i.
C26_PointerBelowMatch ==
    CallableStarts
    => /\ ptrVar[Cur] = Some(Top.idx - 1)
       /\ Top.idx \in 0..(Len(heap[Top.stack]) - 1)
       /\ ListGet(heap[Top.stack], Top.idx) = Top.h

\* C26 witness: the callable of the entry at index 1 starts for a forwarded send, with
\* the pointer at 0
C26_Witness ==
    /\ CallableStarts
    /\ ~Top.final
    /\ Top.idx = 1
    /\ Len(heap[Top.stack]) = 3
    /\ ptrVar[Cur] = Some(0)

\* the first send of the callable on top of the call stack has returned or raised
AfterFirstSend == Returned("send") /\ Top.pc = "wait1"

\* the index the send on top of the call stack tests next
ScanIndex == Top.ptr

\* the index at which the entry whose callable is on top of the call stack matched
MatchedAt == Top.idx

\* the indices at which the sends issued so far by the callable on top of the call
\* stack matched
NestedMatches == {trace[k].idx : k \in {j \in 1..Len(trace) : trace[j].d = Len(frames) + 1}}

\* C27: after a send issued from inside the callable of the entry matched at index i
\* has returned or raised (a send from the top, or a forwarded one that matched at a
\* lower index), the pointer is i - 1 again and the next forwarded send of that
\* callable starts at i - 1.
C27_ScanStatePerSend ==
    /\ [](AfterFirstSend => ptrVar[Cur] = Some(MatchedAt - 1))
    /\ [][AfterFirstSend => (ScanIndex' = MatchedAt - 1)]_vars

\* C27 witness: the callable of the entry at index 2 has got the outcome of a
\* forwarded send that skipped index 1 and matched at index 0
C27_Witness ==
    /\ AfterFirstSend
    /\ MatchedAt = 2
    /\ HKind(Top.h) = "two"
    /\ NestedMatches = {0}
    /\ ret.k = "val"

\* the send of frame k has tested every index of its list from the topmost one down:
\* no entry above the index it tests next accepts its effect, and the entry it
\* matched is the topmost that accepts it
SearchedFromTop(k) ==
    LET s == heap[frames[k].stack]
        m == MatchIdx(s, frames[k].eff)
    IN  IF frames[k].pc = "scan" THEN \A i \in m : i <= frames[k].ptr
        ELSE m # {} /\ frames[k].idx = Highest(m)

\* C28: a send with interpret_final=False issued while the pointer of the context is
\* absent searches from the topmost index and ends as the same send with
\* interpret_final=True does; a send with interpret_final=True issued from inside a
\* running callable searches from the topmost index too.
C28_StartFromTop ==
    /\ \A k \in 1..Len(frames) :
           (frames[k].kind = "send" /\ (frames[k].final \/ frames[k].tok = None))
           => SearchedFromTop(k)
    /\ (DoneOp("send") /\ Top.op.ptr0 = None) =>
          LET m == MatchIdx(Top.op.stack0, Top.op.eff)
          IN  IF m = {} THEN OpTrace = <<>> /\ ret = NoHandlerError(Top.op.eff)
              ELSE /\ OpTrace # <<>>
                   /\ OpTrace[1].idx = Highest(m)
                   /\ (HKind(OpTrace[1].h) = "ret" => ret = Val(OpTrace[1].h))

\* C28 witness: the callable of the bottom entry, invoked for a script's send with
\* interpret_final=False, has sent a B with interpret_final=True that matched the
\* top entry of three
C28_Witness ==
    /\ Len(frames) = 3
    /\ ~frames[2].final
    /\ frames[2].tok = None
    /\ frames[2].idx = 0
    /\ frames[3].kind = "send"
    /\ frames[3].final
    /\ frames[3].pc = "call"
    /\ frames[3].idx = 2
    /\ Len(heap[frames[3].stack]) = 3

\* the sequence s without the element at the (0-based) index i
Without(s, i) == SubSeq(s, 1, i) \o SubSeq(s, i + 2, Len(s))

\* the indices of the sequence s that hold the handler object h
Occurrences(s, h) == {i \in 0..(Len(s) - 1) : ListGet(s, i) = h}

\* C29: an install appends the guard at the top; a release of a guard that is on the
\* stack removes one entry, the topmost occurrence of that object, and the other
\* entries keep their order, whatever the order of the releases is.
C29_AppendAndRemoveTopmost ==
    /\ DoneOp("install") => StackOf(Cur) = Top.op.stack0 \o <<Top.op.h>>
    /\ (DoneOp("release") /\ Occurrences(Top.op.stack0, Top.op.h) # {}) =>
          StackOf(Cur) = Without(Top.op.stack0,
                                 Highest(Occurrences(Top.op.stack0, Top.op.h)))

\* C29 witness: guard 1, entered twice below guard 4, has been released once
C29_Witness ==
    /\ DoneOp("release")
    /\ Top.op.h = 1
    /\ Top.op.stack0 = <<1, 1, 4>>
    /\ StackOf(Cur) = <<1, 4>>

\* the callables invoked by the send that the callable on top of the call stack made
NestedInvoked == {k \in 1..Len(trace) : trace[k].d = Len(frames) + 1}

\* C30: a send with interpret_final=False issued by the callable of the entry matched
\* at index 0 starts with the pointer at -1: it tests no entry, invokes no callable
\* and raises NoHandlerError carrying the effect it was given (the instance the
\* callable received, or the new instance the callable constructed and forwarded).
C30_ForwardFromBottomFails ==
    /\ \A k \in 1..Len(frames) :
           (Forwarded(k) /\ frames[k - 1].idx = 0)
           => /\ frames[k].pc = "scan"
              /\ frames[k].ptr = 0 - 1
              /\ frames[k].tok = Some(0 - 1)
    /\ (/\ Returned("send")
        /\ Top.pc = "wait"
        /\ Top.idx = 0
        /\ HKind(Top.h) \in {"fwd", "fwdNew"})
       => /\ ret.k = "exc"
          /\ ret.t = "NoHandlerError"
          /\ (HKind(Top.h) = "fwd" => ret = NoHandlerError(Top.eff))
          /\ (HKind(Top.h) = "fwdNew" => ret.x > Top.eff.id)
          /\ NestedInvoked = {}

\* C30 witness: on a stack of two forwarding entries, the callable of the bottom one
\* (reached by the forward of the top one) has got NoHandlerError for its own forward
C30_Witness ==
    /\ Returned("send")
    /\ Top.pc = "wait"
    /\ ~Top.final
    /\ Top.idx = 0
    /\ HKind(Top.h) = "fwd"
    /\ Len(heap[Top.stack]) = 2
    /\ ret = NoHandlerError(Top.eff)

\* a send or a handler callable is executing
InSend == Top.kind = "send"

\* C31: when the callables return or send with interpret_final=False only, every send
\* on a stack of n entries terminates with a value or with NoHandlerError, after at
\* most n invocations of callables, each at an index strictly below the one before.
C31_ForwardingTerminates ==
    /\ InSend ~> DoneOp("send")
    /\ [](DoneOp("send") =>
            /\ ret.k = "val" \/ ret.t = "NoHandlerError"
            /\ Len(OpTrace) <= Len(Top.op.stack0)
            /\ \A k \in 1..(Len(OpTrace) - 1) : OpTrace[k + 1].idx < OpTrace[k].idx)
    /\ [](Len(frames) <= 2 + Len(StackOf("main")))

\* C31 witness: a send on a stack of three entries has returned the value of the
\* bottom entry after three invocations
C31_Witness ==
    /\ DoneOp("send")
    /\ Len(Top.op.stack0) = 3
    /\ Len(OpTrace) = 3
    /\ OpTrace[3].idx = 0
    /\ ret = Val(1)

\* C32: safe_send returns the default value when the NoHandlerError for the instance
\* it sent comes from a barrier that is the topmost entry accepting it (an outer
\* handler below or not), or from a forwarding callable of the only entry accepting
\* it; no callable below is invoked.
C32_SafeSendBarrierForward ==
    (DoneOp("safe_send") /\ Top.op.final) =>
        LET s == Top.op.stack0
            m == MatchIdx(s, Top.op.eff)
            top == ListGet(s, Highest(m))
        IN  (/\ m # {}
             /\ \/ HKind(top) = "barrier"
                \/ HKind(top) = "fwd" /\ Cardinality(m) = 1)
            => /\ ret = DefaultValue
               /\ Top.op.raw = NoHandlerError(Top.op.eff)
               /\ Len(OpTrace) = 1
               /\ OpTrace[1].h = top

\* C32 witness: a safe_send of an A on the stack [handler returning a value, barrier]
\* has returned the default value
C32_Witness ==
    /\ DoneOp("safe_send")
    /\ Top.op.final
    /\ Top.op.eff.cls = "A"
    /\ Top.op.stack0 = <<1, 3>>
    /\ Len(OpTrace) = 1
    /\ ret = DefaultValue

\* the observations a scan of one annotated field makes: pairs <<type parameter, type>>
\* in the order they are made (a list and a dict show their first item)
RECURSIVE Observed(_, _)
Observed(a, v) ==
    CASE a.form = "typevar" -> <<<<a.name, v.t>>>>
      [] a.form = "union" -> Observed(a.args[1], v) \o Observed(a.args[2], v)
      [] a.form = "list" /\ v.kind = "list" /\ v.items # <<>> ->
            Observed(a.args[1], v.items[1])
      [] a.form = "dict" /\ v.kind = "dict" /\ v.items # <<>> ->
            Observed(a.args[1], v.items[1][1]) \o Observed(a.args[2], v.items[1][2])
      [] OTHER -> <<>>

\* the observations of the fields k, k+1, ... of class c on the instance e
RECURSIVE ObservedFrom(_, _, _)
ObservedFrom(e, c, k) ==
    IF k > Len(Annotations(c)) THEN <<>>
    ELSE (IF e.vals[k].kind = "missing" THEN <<>> ELSE Observed(Annotations(c)[k], e.vals[k]))
         \o ObservedFrom(e, c, k + 1)

\* the type of the first observation of the parameter p, "" when there is none
FirstObserved(obs, p) ==
    LET at == {i \in 1..Len(obs) : obs[i][1] = p}
    IN  IF at = {} THEN ""
        ELSE obs[CHOOSE i \in at : \A j \in at : i <= j][2]

\* C33: inference binds each requested type parameter to the type of the first
\* observation of it, whatever later observations say, and yields no result when a
\* requested parameter has no observation.
C33_FirstObservationWins ==
    DoneOp("infer") =>
        LET c == Top.op.ann.cls
            n == Len(Top.op.ann.args)
            obs == ObservedFrom(Top.eff, c, 1)
            first == [i \in 1..n |-> FirstObserved(obs, TypeParams(c)[i])]
        IN  /\ (\E i \in 1..n : first[i] = "") => ret = Val(None)
            /\ (\A i \in 1..n : first[i] # "") => ret = Val(Some(first))

\* C33 witness: the two fields of a Pair, both annotated T, hold an int and a str, and
\* inference has bound T to int
C33_Witness ==
    /\ DoneOp("infer")
    /\ Top.eff.cls = "Pair"
    /\ Top.eff.vals = <<Scalar("int"), Scalar("str")>>
    /\ ret = Val(Some(<<"int">>))

\* the classes a declared argument may name for an inferred type t to pass
Supertypes(t) == {t, "object"} \cup (IF t = "bool" THEN {"int"} ELSE {})

\* a declared argument that admits the inferred type t
Admits(x, t) ==
    \/ x.form \in {"any", "typevar"}
    \/ x.form = "class" /\ x.name \in Supertypes(t)
    \/ x.form = "union" /\ \E i \in 1..Len(x.args) : x.args[i].name \in Supertypes(t)

\* the generic classes that have a field annotated with a type parameter
ParamFieldClasses == {"Pair", "Opt", "ListEffect", "DictEffect", "Two"}

NoChain(c) == \A k \in 1..Len(frames) : ~(frames[k].kind = "send" /\ frames[k].ctx = c)

\* C35: a bind made inside a running handler, where the pointer of the caller is
\* present, captures a context whose pointer is absent; the pointer of a captured
\* context that is not entered is absent; and a send with interpret_final=False that a
\* bound computation makes with no send of its context in flight starts at the top
\* of the bound stack, whatever the pointer of the handler that invoked it.
C35_BoundPointerAbsent ==
    /\ [](made["b1"] # "no" /\ ~entered["b1"] => ptrVar["b1"] = None)
    /\ [][(made["b1"] = "no" /\ made'["b1"] # "no")
             => (ptrVar[Cur] # None /\ ptrVar'["b1"] = None)]_vars
    /\ [][(/\ Len(frames') = Len(frames) + 1
           /\ Top'.kind = "send"
           /\ Top'.ctx = "b1"
           /\ ~Top'.final
           /\ NoChain("b1"))
             => (Top'.ptr = Len(StackOf("b1")') - 1 /\ Top'.tok = None)]_vars

\* C35 witness: a handler of the main context, whose pointer is present, has invoked the
\* bound computation, and the computation's send with interpret_final=False starts at
\* the top of the bound stack of two entries, not where the caller's pointer is
C35_Witness ==
    /\ Top.kind = "send"
    /\ Top.ctx = "b1"
    /\ ~Top.final
    /\ Top.pc = "scan"
    /\ Len(StackOf("b1")) = 2
    /\ Top.ptr = 1
    /\ Len(frames) = 4
    /\ frames[2].kind = "send"
    /\ frames[2].ctx = "main"
    /\ ptrVar["main"] # None
    /\ ptrVar["main"][1] # Top.ptr

\* C36: bind leaves the context of its caller as it was, whether it returns or raises
\* because the on_enter of a passed guard raised: the caller's stack has the contents
\* and its pointer the value they had before the call, in a script and in a handler
\* callable (where the pointer is present), and the passed guards that were installed
\* in the caller's stack still are.
C36_BindRestoresCaller ==
    /\ [](DoneOp("bind") =>
            /\ StackOf(Cur) = Top.op.stack0
            /\ ptrVar[Cur] = Top.op.ptr0
            /\ \A i \in 1..Len(Top.op.hs) :
                  Present(Top.op.stack0, Top.op.hs[i]) => Present(StackOf(Cur), Top.op.hs[i]))
    /\ [][(Top.kind = "send" /\ Top.pc = "call" /\ Top'.pc = "bound")
             => /\ ptrVar[Cur] # None
                /\ ptrVar' = ptrVar
                /\ StackOf(Cur)' = StackOf(Cur)]_vars

\* C36 witness: bind(computation, h29, bind_current_context=True), called with h29 on
\* the stack of the caller, has raised what the on_enter of h29 raised, and the stack
\* of the caller is [h29]
C36_Witness ==
    /\ DoneOp("bind")
    /\ Top.op.bcc
    /\ Top.op.hs = <<29>>
    /\ Top.op.stack0 = <<29>>
    /\ ret = Exc("CallbackError", 29)
    /\ StackOf(Cur) = <<29>>

\* the callbacks bind is to call for the guards hs: each on_enter in the order of the
\* arguments, then each on_exit in the reverse order
BindCallbacks(hs) ==
    LET ins == SelectSeq(hs, LAMBDA h : HOnEnter(h) # "none")
        outs == SelectSeq(Reverse(hs), LAMBDA h : HOnExit(h) # "none")
    IN  [k \in 1..Len(ins) |-> <<"on_enter", ins[k]>>]
        \o [k \in 1..Len(outs) |-> <<"on_exit", outs[k]>>]

\* C37: when bind has returned, it has called the on_enter of each passed guard once,
\* in the order of the arguments, and then the on_exit of each once, in the reverse
\* order; an invocation of the bound callable calls no callback.
C37_BindCallsCallbacks ==
    /\ (DoneOp("bind") /\ ret.k = "val") =>
          [k \in 1..Len(Top.op.cbs) |-> <<Top.op.cbs[k].cb, Top.op.cbs[k].h>>]
              = BindCallbacks(Top.op.hs)
    /\ DoneOp("invoke") => Top.op.cbs = <<>>

\* C37 witness: bind(computation, h1, h8) has returned after on_enter of h1, on_enter
\* of h8, on_exit of h8, on_exit of h1
C37_Witness ==
    /\ DoneOp("bind")
    /\ ret.k = "val"
    /\ Top.op.hs = <<1, 8>>
    /\ Len(Top.op.cbs) = 4
    /\ Top.op.cbs[1].cb = "on_enter"
    /\ Top.op.cbs[1].h = 1
    /\ Top.op.cbs[4].cb = "on_exit"
    /\ Top.op.cbs[4].h = 1

\* C39: a guard whose on_enter raises stays on the stack of the context; and when the
\* __enter__ of the k-th member of a util.stack raises, the k-1 members entered before
\* it stay on the stack as well, and none of them is exited.
C39_AcquisitionNotRolledBack ==
    /\ (DoneOp("install") /\ HOnEnter(Top.op.h) = "raise") =>
          /\ ret.k = "exc"
          /\ StackOf(Cur) = Append(Top.op.stack0, Top.op.h)
    /\ DoneOp("stack_enter") =>
          LET hs == Top.op.hs
              bad == {k \in 1..Len(hs) : HOnEnter(hs[k]) = "raise"}
              k == CHOOSE i \in bad : \A j \in bad : i <= j
          IN  bad # {} =>
                /\ ret.k = "exc"
                /\ StackOf(Cur) = Top.op.stack0 \o SubSeq(hs, 1, k)
                /\ \A i \in 1..Len(Top.op.cbs) : Top.op.cbs[i].cb = "on_enter"

\* C39 witness: with stack(h1, h29) has raised what the on_enter of h29 raised, and h1
\* and h29 are on the stack
C39_Witness ==
    /\ DoneOp("stack_enter")
    /\ Top.op.hs = <<1, 29>>
    /\ ret = Exc("CallbackError", 29)
    /\ StackOf(Cur) = Top.op.stack0 \o <<1, 29>>

\* the invocations of the bound computation that are executing in the call stack fs
InvocationsIn(fs) == {k \in 1..Len(fs) : fs[k].kind = "script" /\ fs[k].ctx = "b1"}

\* the number of invocations executing, in the two threads
Executing == Cardinality(InvocationsIn(frames)) + Cardinality(InvocationsIn(parked.frames))

\* C38: every invocation of the bound callable runs in the context bind captured, and
\* at most one executes at a time: an invocation made while one is executing, by the
\* computation itself, by a handler callable it reached, or by the other thread, ends
\* with RuntimeError and does not start the computation.
C38_OneInvocationAtATime ==
    /\ [](Executing <= 1)
    /\ [](\A k \in 2..Len(frames) : frames[k].kind = "script" => frames[k].ctx = "b1")
    /\ [][(/\ Executing = 1
           /\ Running("script")
           /\ parked' = parked
           /\ Len(frames') >= Len(frames)
           /\ frames'[Len(frames)].op.name = "invoke")
             => (Len(frames') = Len(frames) /\ ret' = Exc("RuntimeError", 0))]_vars
    /\ [][(/\ Executing = 1
           /\ Running("send")
           /\ Top.pc = "call"
           /\ made["b1"] # "no"
           /\ parked' = parked)
             => (Len(frames') = Len(frames) - 1 /\ ret' = Exc("RuntimeError", 0))]_vars

\* C38 witness: the second thread has invoked the bound callable while an invocation
\* made by the main thread is executing, and got RuntimeError
C38_Witness ==
    /\ DoneOp("invoke")
    /\ Cur = "t1"
    /\ Len(frames) = 1
    /\ ret = Exc("RuntimeError", 0)
    /\ Cardinality(InvocationsIn(parked.frames)) = 1

\* C40: a pointer that is present lies between -1 and the index of the top of the
\* stack of its context, and the index at which the loop of send reads its list is
\* within the list, also while a handler callable has a scope open.
C40_PointerInRange ==
    /\ \A c \in Contexts :
          ptrVar[c] # None =>
              (ptrVar[c][1] >= 0 - 1 /\ ptrVar[c][1] <= Len(StackOf(c)) - 1)
    /\ \A k \in 1..Len(frames) :
          (frames[k].kind = "send" /\ frames[k].pc = "scan") =>
              (frames[k].ptr >= 0 - 1 /\ frames[k].ptr <= Len(heap[frames[k].stack]) - 1)

\* C40 witness: a callable has opened a scope on a stack of two entries and forwarded
\* from it; the forwarded send scans at index 0 of a stack of three
C40_Witness ==
    /\ Running("send")
    /\ Top.pc = "scan"
    /\ ~Top.final
    /\ Len(frames) >= 3
    /\ frames[Len(frames) - 1].pc = "inwait"
    /\ Len(StackOf(Cur)) = 3
    /\ ptrVar[Cur] = Some(0)
    /\ Top.ptr = 0

====
